---- MODULE Spec2Model ----
(***************************************************************************)
(* Campus placement / internship tracking application.                     *)
(*                                                                         *)
(* The record store (students, student_internship_submissions,             *)
(* student_internship_approvals, placement_applications) is shared by all  *)
(* sessions.  Every session keeps local React state loaded from the store. *)
(* Each `await` of a handler is one step of the model: the request is      *)
(* served by the store and the handler runs on to its next `await`.        *)
(***************************************************************************)
EXTENDS Integers, FiniteSets, Sequences, TLC

(***************************************************************************)
(* Bounds of the model.                                                    *)
(***************************************************************************)
\* uploads to the object store over one behaviour; the n-th upload gets URL n
MaxUploads == 3
\* store requests of awardCredits that the backend answers with an error
MaxFaults == 1
\* total_credits is not raised beyond this value
MaxCredits == 4
\* button presses and screen openings of the admin sessions over one behaviour
MaxAdminOps == 3
\* applyForPlacement invocations over one behaviour
MaxApplications == 3
\* rows of the notifications table
MaxNotifications == 11
\* markRead invocations over one behaviour
MaxReads == 2
\* saveProfile invocations over one behaviour
MaxSaves == 2

Students == {"s1"}
Admins == {"a1", "a2"}
\* placement events, and the devices on which student s1 is logged in
Events == {"e1", "e2"}
Sessions == {"d1", "d2"}

\* src/lib/constants.ts: the catalog of assignment types
STATIC_ASSIGNMENTS ==
  << [type |-> "offer_letter",      required |-> TRUE, unlockOthers |-> TRUE],
     [type |-> "completion_letter", required |-> TRUE, unlockOthers |-> FALSE],
     [type |-> "weekly_report",     required |-> TRUE, unlockOthers |-> FALSE],
     [type |-> "student_outcome",   required |-> TRUE, unlockOthers |-> FALSE],
     [type |-> "student_feedback",  required |-> TRUE, unlockOthers |-> FALSE],
     [type |-> "company_outcome",   required |-> TRUE, unlockOthers |-> FALSE] >>

AssignmentTypes == {STATIC_ASSIGNMENTS[i].type : i \in 1..Len(STATIC_ASSIGNMENTS)}

\* the credits one award adds
CreditsPerAward == 2

NoSub == [file_url |-> 0, submission_status |-> "none"]
NoRow == [exists |-> FALSE, offer_letter_approved |-> FALSE, credits_awarded |-> FALSE]
NoSubs == [t \in AssignmentTypes |-> NoSub]

\* what a session keeps of a loaded list of submissions: per assignment type
\* the status of the row, "none" where the list has no row of that type
StatusView(rows) == [t \in AssignmentTypes |-> rows[t].submission_status]
NoView == [t \in AssignmentTypes |-> "none"]

VARIABLES
  \* ---- record store ----
  subs,            \* student_internship_submissions: student -> type -> row
  approvals,       \* student_internship_approvals: student -> row
  total_credits,   \* students.total_credits
  nextUrl,         \* number of the next object-store upload
  faults,          \* store errors injected so far
  adminOps,        \* admin button presses and screen openings so far
  \* ---- admin ClassView session ----
  a_pc, a_cur, a_subs, a_apps, a_todo, a_credits, a_alert, a_pre,
  \* ---- StudentInternshipsScreen session (one per student) ----
  s_pc, s_type, s_url, s_las, s_loading, s_approval, s_subs, s_alert,
  \* ---- history of awardCredits ----
  h_awardDone, h_readmitted, h_base,
  \* ---- placements ----
  apps,            \* placement_applications: set of rows
  applyOps,        \* applyForPlacement invocations so far
  \* ---- StudentPlacementsScreen session (one per device) ----
  p_applying, p_apps, p_alert, p_lmaPending,
  \* ---- AdminPlacementsScreen session ----
  pa_pc, pa_cur, pa_event, pa_apps, pa_alert,
  pa_before,       \* placement_applications when the last acceptApplication began
  notifs,          \* notifications inserted by acceptApplication
  \* ---- uploads of the StudentPlacementsScreen session ----
  reqSubs,         \* student_requirement_submissions: set of rows
  p_upc, p_uploading, p_target, p_reqEvent, p_url,
  \* ---- build environment and the demo list of StudentInternshipsScreen ----
  configured,      \* EXPO_PUBLIC_SUPABASE_URL names a real project
  s_mock,          \* `submissions` when it holds mock submissions: student -> list
  h_mockUploads,   \* demo uploads completed so far
  h_cancelled,     \* the handlers whose document picker has been cancelled
  \* ---- placement events ----
  events,          \* placement_events: event -> row
  profileClass,    \* student_profiles.class: student -> class
  p_studentClass, p_events, p_loading,  \* StudentPlacementsScreen session
  \* ---- notifications ----
  notifications,   \* notifications: list of rows in order of created_at
  readOps,         \* markRead invocations so far
  d_notifications, d_unread,    \* dashboard session of the student
  p_notifications, p_unread,    \* StudentPlacementsScreen session (per device)
  \* ---- registration ----
  students,        \* students: set of rows
  r_pc, r_data, r_result,       \* the registration screen's registerStudent
  \* ---- StudentProfile screen (one per device) ----
  f_profile,       \* `profile`, by its class
  f_pc,            \* position of saveProfile
  feed,            \* changes of student_profiles on their way to the device
  saveOps          \* saveProfile invocations so far

storeVars == <<subs, approvals, total_credits, nextUrl, faults>>
budgetVars == <<adminOps>>
adminVars == <<a_pc, a_cur, a_subs, a_apps, a_todo, a_credits, a_alert, a_pre>>
studentVars == <<s_pc, s_type, s_url, s_las, s_loading, s_approval, s_subs, s_alert>>
histVars == <<h_awardDone, h_readmitted, h_base>>
demoVars == <<configured, s_mock, h_mockUploads, h_cancelled>>
internVars == <<storeVars, budgetVars, adminVars, studentVars, histVars, demoVars>>
adminPlaceVars == <<pa_pc, pa_cur, pa_event, pa_apps, pa_alert, notifs, pa_before>>
uploadPlaceVars == <<reqSubs, p_upc, p_uploading, p_target, p_reqEvent, p_url>>
eventVars == <<events, profileClass, p_studentClass, p_events, p_loading>>
notifVars == <<notifications, readOps, d_notifications, d_unread, p_notifications,
               p_unread>>
regVars == <<students, r_pc, r_data, r_result>>
profileVars == <<f_profile, f_pc, feed, saveOps>>
placeVars == <<apps, applyOps, p_applying, p_apps, p_alert, p_lmaPending,
               adminPlaceVars, uploadPlaceVars, eventVars, notifVars, regVars,
               profileVars>>
vars == <<internVars, placeVars>>

(***************************************************************************)
(* Helpers on rows.                                                        *)
(***************************************************************************)
\* `!!submission?.file_url` on a loaded list: every stored row has a URL
HasFile(view, t) == view[t] # "none"

Exists(row) == row.submission_status # "none"

\* loadData: students of the class that have no offer_letter row in `snap`
NoOfferLetter(snap) ==
  {s \in Students : snap[s]["offer_letter"] = "none"}

\* a loadData whose credit reset does not look at the completion letter
NotEligibleForCredits_All(snap) == Students

\* loadData: students of the class without an approved completion letter
NotEligibleForCredits(snap) ==
  {s \in Students : snap[s]["completion_letter"] # "approved"}

\* .update({...}).eq('student_id', s): changes the row only if it exists
UpdateApproval(tbl, s, col, val) ==
  IF tbl[s].exists THEN [tbl EXCEPT ![s][col] = val] ELSE tbl

\* .update({submission_status: 'approved'}).eq(student).eq(type)
ApproveSubmission(tbl, s, t) ==
  IF Exists(tbl[s][t]) THEN [tbl EXCEPT ![s][t].submission_status = "approved"]
  ELSE tbl

AwardPcs == {"aw_credits", "aw_upsert", "aw_update"}
LoadPcs == {"ld_subs", "ld_resetOffer", "ld_resetCredits", "ld_apps"}

\* the ClassView renders its buttons only when `loading` is false; in an
\* unconfigured build it lists mock profiles, none of them a stored student
AdminReady(a) == configured /\ a_pc[a] = "idle"

\* one more admin button press or screen opening
AdminOp == adminOps < MaxAdminOps /\ adminOps' = adminOps + 1

(***************************************************************************)
(* ClassView.loadData                                                      *)
(***************************************************************************)
\* position after the offer-letter reset loop, given the loaded submissions
AfterResetOffer(snap) ==
  IF NotEligibleForCredits(snap) # {}
  THEN [pc |-> "ld_resetCredits", todo |-> NotEligibleForCredits(snap)]
  ELSE [pc |-> "ld_apps", todo |-> {}]

AfterLoadSubs(snap) ==
  IF NoOfferLetter(snap) # {}
  THEN [pc |-> "ld_resetOffer", todo |-> NoOfferLetter(snap)]
  ELSE AfterResetOffer(snap)

\* submissionsByStudent of the select on student_internship_submissions
ClassView(tbl) == [s \in Students |-> StatusView(tbl[s])]

\* select * from student_internship_submissions is served; setSubmissions
ServeSubmissionsOfClass(a) ==
  /\ configured
  /\ a_subs' = [a_subs EXCEPT ![a] = ClassView(subs)]
  /\ a_pc' = [a_pc EXCEPT ![a] = AfterLoadSubs(ClassView(subs)).pc]
  /\ a_todo' = [a_todo EXCEPT ![a] = AfterLoadSubs(ClassView(subs)).todo]
  /\ a_alert' = [a_alert EXCEPT ![a] = "none"]
  /\ UNCHANGED <<storeVars, a_cur, a_apps, a_credits, a_pre,
                 studentVars, histVars, placeVars, demoVars>>

\* the class screen is opened again (useEffect on classId): loadData starts
\* and its first select is served
AdminMount(a) ==
  /\ AdminReady(a)
  /\ AdminOp
  /\ ServeSubmissionsOfClass(a)

\* the first select of a loadData that a handler or the first mount started
LoadSubmissionsOfClass(a) ==
  /\ a_pc[a] = "ld_subs"
  /\ ServeSubmissionsOfClass(a)
  /\ UNCHANGED adminOps

\* update({offer_letter_approved: false}) for one student without offer letter
ResetOfferApproval(a) ==
  /\ a_pc[a] = "ld_resetOffer"
  /\ \E s \in a_todo[a] :
       /\ approvals' = UpdateApproval(approvals, s, "offer_letter_approved", FALSE)
       /\ IF a_todo[a] = {s}
          THEN /\ a_pc' = [a_pc EXCEPT ![a] = AfterResetOffer(a_subs[a]).pc]
               /\ a_todo' = [a_todo EXCEPT ![a] = AfterResetOffer(a_subs[a]).todo]
          ELSE /\ a_todo' = [a_todo EXCEPT ![a] = a_todo[a] \ {s}]
               /\ UNCHANGED a_pc
  /\ a_alert' = [a_alert EXCEPT ![a] = "none"]
  /\ UNCHANGED <<adminOps, subs, total_credits, nextUrl, faults, a_cur, a_subs, a_apps,
                 a_credits, a_pre, studentVars, histVars, placeVars, demoVars>>

\* update({credits_awarded: false}) for one student without approved letter
ResetCreditsAwarded(a) ==
  /\ a_pc[a] = "ld_resetCredits"
  /\ \E s \in a_todo[a] :
       /\ approvals' = UpdateApproval(approvals, s, "credits_awarded", FALSE)
       /\ IF a_todo[a] = {s}
          THEN /\ a_pc' = [a_pc EXCEPT ![a] = "ld_apps"]
               /\ a_todo' = [a_todo EXCEPT ![a] = {}]
          ELSE /\ a_todo' = [a_todo EXCEPT ![a] = a_todo[a] \ {s}]
               /\ UNCHANGED a_pc
  /\ a_alert' = [a_alert EXCEPT ![a] = "none"]
  /\ UNCHANGED <<adminOps, subs, total_credits, nextUrl, faults, a_cur, a_subs, a_apps,
                 a_credits, a_pre, studentVars, histVars, placeVars, demoVars>>

\* select * from student_internship_approvals; setApprovals; setLoading(false)
LoadApprovalsOfClass(a) ==
  /\ a_pc[a] = "ld_apps"
  /\ a_apps' = [a_apps EXCEPT ![a] = approvals]
  /\ a_pc' = [a_pc EXCEPT ![a] = "idle"]
  /\ a_alert' = [a_alert EXCEPT ![a] = "none"]
  /\ UNCHANGED <<adminOps, storeVars, a_cur, a_subs, a_todo, a_credits, a_pre,
                 studentVars, histVars, placeVars, demoVars>>

(***************************************************************************)
(* ClassView.approveOfferLetter                                            *)
(***************************************************************************)
\* the button is pressed and the upsert of the approval row is served
approveOfferLetter(a, s) ==
  /\ AdminReady(a)
  /\ AdminOp
  /\ approvals' = [approvals EXCEPT ![s].exists = TRUE,
                                    ![s].offer_letter_approved = TRUE]
  /\ a_pc' = [a_pc EXCEPT ![a] = "ap_update"]
  /\ a_cur' = [a_cur EXCEPT ![a] = s]
  /\ a_alert' = [a_alert EXCEPT ![a] = "none"]
  /\ UNCHANGED <<subs, total_credits, nextUrl, faults, a_subs, a_apps, a_todo,
                 a_credits, a_pre, studentVars, histVars, placeVars, demoVars>>

\* the button is pressed and the store answers the upsert of the approval
\* row with an error: the handler throws it; catch: Alert 'Error'
ApproveUpsertFails(a, s) ==
  /\ AdminReady(a)
  /\ AdminOp
  /\ faults < MaxFaults
  /\ faults' = faults + 1
  /\ a_cur' = [a_cur EXCEPT ![a] = s]
  /\ a_alert' = [a_alert EXCEPT ![a] = "Error"]
  /\ UNCHANGED <<subs, approvals, total_credits, nextUrl, a_pc, a_subs, a_apps, a_todo,
                 a_credits, a_pre, studentVars, histVars, placeVars, demoVars>>

\* the update of the offer-letter submission is served; setApprovals;
\* loadData() is started; Alert 'Approved'
ApproveUpdateSubmission(a) ==
  /\ a_pc[a] = "ap_update"
  /\ subs' = ApproveSubmission(subs, a_cur[a], "offer_letter")
  /\ a_apps' = [a_apps EXCEPT ![a][a_cur[a]] =
                  [exists |-> TRUE, offer_letter_approved |-> TRUE,
                   credits_awarded |-> a_apps[a][a_cur[a]].credits_awarded]]
  /\ a_pc' = [a_pc EXCEPT ![a] = "ld_subs"]
  /\ a_alert' = [a_alert EXCEPT ![a] = "Approved"]
  /\ UNCHANGED <<adminOps, approvals, total_credits, nextUrl, faults, a_cur, a_subs,
                 a_todo, a_credits, a_pre, studentVars, histVars, placeVars, demoVars>>

(***************************************************************************)
(* ClassView.awardCredits                                                  *)
(***************************************************************************)
NoPre == [credits_awarded |-> FALSE]

\* some admin session is between its credit read and its last write for s
AwardInFlight(s) == \E b \in Admins : a_pc[b] \in AwardPcs /\ a_cur[b] = s

\* the guards at the head of the handler, on the session's loaded state
AwardRefusal(a, s) ==
  IF a_apps[a][s].credits_awarded THEN "Already Awarded"
  ELSE IF ~HasFile(a_subs[a][s], "completion_letter") THEN "Missing Document"
  ELSE "none"

\* the handler returns at one of its guards with an alert
AwardRefused(a, s) ==
  /\ AdminReady(a)
  /\ AwardRefusal(a, s) # "none"
  /\ a_alert' = [a_alert EXCEPT ![a] = AwardRefusal(a, s)]
  /\ UNCHANGED <<adminOps, storeVars, a_pc, a_cur, a_subs, a_apps, a_todo, a_credits,
                 a_pre, studentVars, histVars, placeVars, demoVars>>

\* the guards pass and the select of students.total_credits is served
awardCredits(a, s) ==
  /\ AdminReady(a)
  /\ AdminOp
  /\ AwardRefusal(a, s) = "none"
  /\ total_credits[s] + CreditsPerAward <= MaxCredits
  /\ a_credits' = [a_credits EXCEPT ![a] = total_credits[s]]
  /\ a_cur' = [a_cur EXCEPT ![a] = s]
  /\ a_pc' = [a_pc EXCEPT ![a] = "aw_credits"]
  /\ a_alert' = [a_alert EXCEPT ![a] = "none"]
  /\ a_pre' = [a_pre EXCEPT ![a] =
                 [credits_awarded |-> approvals[s].credits_awarded]]
  /\ h_readmitted' = [h_readmitted EXCEPT ![s] =
                        \/ h_readmitted[s]
                        \/ h_awardDone[s] /\ approvals[s].credits_awarded]
  /\ h_base' = [h_base EXCEPT ![s] =
                  IF AwardInFlight(s) THEN h_base[s] ELSE total_credits[s]]
  /\ UNCHANGED <<storeVars, a_subs, a_apps, a_todo, h_awardDone,
                 studentVars, placeVars, demoVars>>

\* the select of the student row is answered with an error
AwardReadFails(a, s) ==
  /\ AdminReady(a)
  /\ AdminOp
  /\ AwardRefusal(a, s) = "none"
  /\ faults < MaxFaults
  /\ faults' = faults + 1
  /\ a_alert' = [a_alert EXCEPT ![a] = "Error"]
  /\ UNCHANGED <<subs, approvals, total_credits, nextUrl, a_pc, a_cur, a_subs,
                 a_apps, a_todo, a_credits, a_pre, studentVars, histVars, placeVars, demoVars>>

\* update({total_credits: currentCredits + 2}) is served
AwardWriteCredits(a) ==
  /\ a_pc[a] = "aw_credits"
  /\ total_credits' = [total_credits EXCEPT ![a_cur[a]] = a_credits[a] + CreditsPerAward]
  /\ a_pc' = [a_pc EXCEPT ![a] = "aw_upsert"]
  /\ a_alert' = [a_alert EXCEPT ![a] = "none"]
  /\ UNCHANGED <<adminOps, subs, approvals, nextUrl, faults, a_cur, a_subs, a_apps, a_todo,
                 a_credits, a_pre, studentVars, histVars, placeVars, demoVars>>

\* an awardCredits write that is answered with an error and ends the handler:
\* creditsError (alert, return) or approvalError (throw, catch, alert)
AwardWriteFails(a) ==
  /\ a_pc[a] \in {"aw_credits", "aw_upsert"}
  /\ faults < MaxFaults
  /\ faults' = faults + 1
  /\ a_pc' = [a_pc EXCEPT ![a] = "idle"]
  /\ a_alert' = [a_alert EXCEPT ![a] = "Error"]
  /\ a_pre' = [a_pre EXCEPT ![a] = NoPre]
  /\ a_credits' = [a_credits EXCEPT ![a] = 0]
  /\ UNCHANGED <<adminOps, subs, approvals, total_credits, nextUrl, a_cur, a_subs, a_apps,
                 a_todo, studentVars, histVars, placeVars, demoVars>>

\* upsert({student_id, credits_awarded: true, offer_letter_approved:
\*         approvals[student_id]?.offer_letter_approved || false})
AwardUpsertApproval(a) ==
  /\ a_pc[a] = "aw_upsert"
  /\ approvals' = [approvals EXCEPT ![a_cur[a]] =
                     [exists |-> TRUE,
                      offer_letter_approved |-> a_apps[a][a_cur[a]].offer_letter_approved,
                      credits_awarded |-> TRUE]]
  /\ a_pc' = [a_pc EXCEPT ![a] = "aw_update"]
  /\ a_alert' = [a_alert EXCEPT ![a] = "none"]
  /\ UNCHANGED <<adminOps, subs, total_credits, nextUrl, faults, a_cur, a_subs, a_apps,
                 a_todo, a_credits, a_pre, studentVars, histVars, placeVars, demoVars>>

\* what follows the update of the completion letter, served or failed:
\* setApprovals, Alert 'Credits Awarded', await loadData()
AwardFinish(a) ==
  /\ a_apps' = [a_apps EXCEPT ![a][a_cur[a]] =
                  [exists |-> TRUE,
                   offer_letter_approved |-> a_apps[a][a_cur[a]].offer_letter_approved,
                   credits_awarded |-> TRUE]]
  /\ a_alert' = [a_alert EXCEPT ![a] = "Credits Awarded"]
  /\ a_pc' = [a_pc EXCEPT ![a] = "ld_subs"]
  /\ a_pre' = [a_pre EXCEPT ![a] = NoPre]
  /\ a_credits' = [a_credits EXCEPT ![a] = 0]
  /\ h_awardDone' = [h_awardDone EXCEPT ![a_cur[a]] = TRUE]

\* update({submission_status: 'approved'}) of the completion letter is served
AwardUpdateSubmission(a) ==
  /\ a_pc[a] = "aw_update"
  /\ subs' = ApproveSubmission(subs, a_cur[a], "completion_letter")
  /\ AwardFinish(a)
  /\ UNCHANGED <<adminOps, approvals, total_credits, nextUrl, faults, a_cur, a_subs, a_todo,
                 h_readmitted, h_base, studentVars, placeVars, demoVars>>

\* the update is answered with an error, which is only logged
AwardUpdateFails(a) ==
  /\ a_pc[a] = "aw_update"
  /\ faults < MaxFaults
  /\ faults' = faults + 1
  /\ AwardFinish(a)
  /\ UNCHANGED <<adminOps, subs, approvals, total_credits, nextUrl, a_cur, a_subs, a_todo,
                 h_readmitted, h_base, studentVars, placeVars, demoVars>>

(***************************************************************************)
(* StudentInternshipsScreen                                                *)
(***************************************************************************)
NoApproval == [offer_letter_approved |-> FALSE, credits_awarded |-> FALSE]

\* the two selects on student_internship_submissions that the effect issued
\* are served: loadSubmissions sets the list and `loading`, and
\* loadApprovalStatus learns whether an offer-letter row exists
ServeOwnSubmissions(s) ==
  /\ configured
  /\ s_subs' = [s_subs EXCEPT ![s] = StatusView(subs[s])]
  /\ s_loading' = [s_loading EXCEPT ![s] = FALSE]
  /\ s_las' = [s_las EXCEPT ![s] =
                 IF Exists(subs[s]["offer_letter"]) THEN "las_get" ELSE "las_reset"]
  /\ s_alert' = [s_alert EXCEPT ![s] = "none"]
  /\ UNCHANGED <<adminOps, storeVars, adminVars, s_pc, s_type, s_url,
                 s_approval, histVars, placeVars, demoVars>>

\* useEffect on [user] runs again: loadSubmissions() and loadApprovalStatus()
\* are started and their first selects are served
StudentReload(s) ==
  /\ s_las[s] = "idle"
  /\ s_pc[s] = "idle"
  /\ ServeOwnSubmissions(s)

\* the first selects of the loads that the first mount started
LoadOfferLetterSub(s) ==
  /\ s_las[s] = "las_sub"
  /\ ServeOwnSubmissions(s)

\* no offer letter: update({offer_letter_approved: false}); setApproval
ResetOwnApproval(s) ==
  /\ s_las[s] = "las_reset"
  /\ approvals' = UpdateApproval(approvals, s, "offer_letter_approved", FALSE)
  /\ s_approval' = [s_approval EXCEPT ![s] = NoApproval]
  /\ s_las' = [s_las EXCEPT ![s] = "idle"]
  /\ s_alert' = [s_alert EXCEPT ![s] = "none"]
  /\ UNCHANGED <<adminOps, subs, total_credits, nextUrl, faults, adminVars, s_pc, s_type,
                 s_url, s_loading, s_subs, histVars, placeVars, demoVars>>

\* the select of the approval row is served; setApproval(data || defaults)
LoadOwnApproval(s) ==
  /\ s_las[s] = "las_get"
  /\ s_approval' = [s_approval EXCEPT ![s] =
        IF approvals[s].exists
        THEN [offer_letter_approved |-> approvals[s].offer_letter_approved,
              credits_awarded |-> approvals[s].credits_awarded]
        ELSE NoApproval]
  /\ s_las' = [s_las EXCEPT ![s] = "idle"]
  /\ s_alert' = [s_alert EXCEPT ![s] = "none"]
  /\ UNCHANGED <<adminOps, storeVars, adminVars, s_pc, s_type, s_url,
                 s_loading, s_subs, histVars, placeVars, demoVars>>

\* a screen on which no assignment card is ever locked
isAssignmentLocked_Never(s, t) == FALSE

\* assignment.type !== 'offer_letter' && !approval.offer_letter_approved
isAssignmentLocked(s, t) ==
  IF t = "offer_letter" THEN FALSE ELSE ~s_approval[s].offer_letter_approved

\* the upload button of assignment t is pressed: it is rendered once
\* `loading` is false and is disabled while the assignment is locked;
\* setUploading(t); a file is picked and read; uploadFile() puts it in the
\* object store under a name with Date.now() in it and returns its public
\* URL; the upsert of the submission is issued
uploadDocument(s, t) ==
  /\ configured
  /\ ~s_loading[s]
  /\ s_pc[s] = "idle"
  /\ ~isAssignmentLocked(s, t)
  /\ nextUrl <= MaxUploads
  /\ s_pc' = [s_pc EXCEPT ![s] = "up_save"]
  /\ s_type' = [s_type EXCEPT ![s] = t]
  /\ s_url' = [s_url EXCEPT ![s] = nextUrl]
  /\ nextUrl' = nextUrl + 1
  /\ s_alert' = [s_alert EXCEPT ![s] = "none"]
  /\ UNCHANGED <<adminOps, subs, approvals, total_credits, faults, adminVars,
                 s_las, s_loading, s_approval, s_subs, histVars, placeVars, demoVars>>

\* upsert({student_id, assignment_type, file_url, submission_status:
\* 'submitted'}, onConflict student_id,assignment_type); Alert 'Success';
\* loadSubmissions() refreshes the list; setUploading(null)
SaveSubmission(s) ==
  /\ s_pc[s] = "up_save"
  /\ subs' = [subs EXCEPT ![s][s_type[s]] =
                [file_url |-> s_url[s], submission_status |-> "submitted"]]
  /\ s_subs' = [s_subs EXCEPT ![s] = StatusView(subs'[s])]
  /\ s_alert' = [s_alert EXCEPT ![s] = "Success"]
  /\ s_pc' = [s_pc EXCEPT ![s] = "idle"]
  /\ s_type' = [s_type EXCEPT ![s] = "none"]
  /\ s_url' = [s_url EXCEPT ![s] = 0]
  /\ UNCHANGED <<adminOps, approvals, total_credits, nextUrl, faults, adminVars, s_las,
                 s_loading, s_approval, histVars, placeVars, demoVars>>

(***************************************************************************)
(* StudentInternshipsScreen: the document picker and the demo mode         *)
(***************************************************************************)
\* the mock file_url of the demo branch
MockUrl(t) == <<"https://example.com/mock", t>>

\* mockSubmission of the demo branch
MockSubmission(t) ==
  [assignment_type |-> t, file_url |-> MockUrl(t), submission_status |-> "submitted"]

\* the statuses that submissions.find() reads from the demo list
MockView(list) ==
  [t \in AssignmentTypes |->
     IF \E i \in DOMAIN list : list[i].assignment_type = t THEN "submitted" ELSE "none"]

\* a demo branch that appends without the filter
ReplaceMockSubmission_Append(list, t) == Append(list, MockSubmission(t))

\* setSubmissions(prev => [...prev.filter(s => s.assignment_type !==
\* assignmentType), mockSubmission])
ReplaceMockSubmission(list, t) ==
  Append(SelectSeq(list, LAMBDA x : x.assignment_type # t), MockSubmission(t))

\* unconfigured build: loadSubmissions sets the empty list and clears
\* `loading`; loadApprovalStatus sets both flags false (mount effect, or the
\* effect on [user] running again)
LoadDemo(s) ==
  /\ ~configured
  /\ s_pc[s] = "idle"
  /\ s_mock' = [s_mock EXCEPT ![s] = << >>]
  /\ s_subs' = [s_subs EXCEPT ![s] = NoView]
  /\ s_loading' = [s_loading EXCEPT ![s] = FALSE]
  /\ s_approval' = [s_approval EXCEPT ![s] = NoApproval]
  /\ s_las' = [s_las EXCEPT ![s] = "idle"]
  /\ s_alert' = [s_alert EXCEPT ![s] = "none"]
  /\ UNCHANGED <<adminOps, storeVars, adminVars, s_pc, s_type, s_url, histVars,
                 placeVars, configured, h_mockUploads, h_cancelled>>

\* a cancel branch that leaves the uploading marker as it is
CancelledUploading_Kept(marker) == marker

\* setUploading(null) in the branch taken when the picker was cancelled
CancelledUploading(marker) == "none"

\* the upload button of assignment t is pressed; setUploading(t); the
\* document picker opens
PressUpload(s, t) ==
  /\ ~s_loading[s]
  /\ s_pc[s] = "idle"
  /\ ~isAssignmentLocked(s, t)
  /\ s_pc' = [s_pc EXCEPT ![s] = "up_pick"]
  /\ s_type' = [s_type EXCEPT ![s] = t]
  /\ s_alert' = [s_alert EXCEPT ![s] = "none"]
  /\ UNCHANGED <<adminOps, storeVars, adminVars, s_url, s_las, s_loading, s_approval,
                 s_subs, histVars, placeVars, demoVars>>

\* result.canceled: setUploading(null); return
PickerCancelled(s) ==
  /\ s_pc[s] = "up_pick"
  /\ s_pc' = [s_pc EXCEPT ![s] = "idle"]
  /\ s_type' = [s_type EXCEPT ![s] = CancelledUploading(s_type[s])]
  /\ h_cancelled' = h_cancelled \cup {"uploadDocument"}
  /\ UNCHANGED <<adminOps, storeVars, adminVars, s_url, s_las, s_loading, s_approval,
                 s_subs, s_alert, histVars, placeVars, configured, s_mock,
                 h_mockUploads>>

\* a file is chosen in a configured build: uploadFile() puts it in the
\* object store and returns its public URL; the upsert is issued
PickerChose(s) ==
  /\ configured
  /\ s_pc[s] = "up_pick"
  /\ nextUrl <= MaxUploads
  /\ s_pc' = [s_pc EXCEPT ![s] = "up_save"]
  /\ s_url' = [s_url EXCEPT ![s] = nextUrl]
  /\ nextUrl' = nextUrl + 1
  /\ UNCHANGED <<adminOps, subs, approvals, total_credits, faults, adminVars, s_type,
                 s_las, s_loading, s_approval, s_subs, s_alert, histVars, placeVars,
                 demoVars>>

\* a handler whose catch alerts and that has no finally block
UploadFileFails_NoFinally(s) ==
  /\ configured
  /\ s_pc[s] = "up_pick"
  /\ faults < MaxFaults
  /\ faults' = faults + 1
  /\ s_pc' = [s_pc EXCEPT ![s] = "idle"]
  /\ s_alert' = [s_alert EXCEPT ![s] = "Error"]
  /\ UNCHANGED <<adminOps, subs, approvals, total_credits, nextUrl, adminVars, s_type,
                 s_url, s_las, s_loading, s_approval, s_subs, histVars, placeVars,
                 demoVars>>

\* a file is chosen in a configured build and the object store answers the
\* upload with an error: uploadFile() throws it; catch: Alert 'Error';
\* finally: setUploading(null)
UploadFileFails(s) ==
  /\ configured
  /\ s_pc[s] = "up_pick"
  /\ faults < MaxFaults
  /\ faults' = faults + 1
  /\ s_pc' = [s_pc EXCEPT ![s] = "idle"]
  /\ s_type' = [s_type EXCEPT ![s] = "none"]
  /\ s_alert' = [s_alert EXCEPT ![s] = "Error"]
  /\ UNCHANGED <<adminOps, subs, approvals, total_credits, nextUrl, adminVars, s_url,
                 s_las, s_loading, s_approval, s_subs, histVars, placeVars, demoVars>>

\* the store answers the upsert of the submission with an error: Alert
\* 'Database Error', throw; catch: Alert 'Error'; finally: setUploading(null)
SaveSubmissionFails(s) ==
  /\ s_pc[s] = "up_save"
  /\ faults < MaxFaults
  /\ faults' = faults + 1
  /\ s_pc' = [s_pc EXCEPT ![s] = "idle"]
  /\ s_type' = [s_type EXCEPT ![s] = "none"]
  /\ s_url' = [s_url EXCEPT ![s] = 0]
  /\ s_alert' = [s_alert EXCEPT ![s] = "Error"]
  /\ UNCHANGED <<adminOps, subs, approvals, total_credits, nextUrl, adminVars,
                 s_las, s_loading, s_approval, s_subs, histVars, placeVars, demoVars>>

\* a file is chosen in an unconfigured build: Alert 'Demo Mode'; the mock
\* submission replaces the one of its type in the list; setUploading(null)
PickerChoseDemo(s) ==
  /\ ~configured
  /\ s_pc[s] = "up_pick"
  /\ h_mockUploads < MaxUploads
  /\ h_mockUploads' = h_mockUploads + 1
  /\ s_mock' = [s_mock EXCEPT ![s] = ReplaceMockSubmission(s_mock[s], s_type[s])]
  /\ s_subs' = [s_subs EXCEPT ![s] = MockView(s_mock'[s])]
  /\ s_alert' = [s_alert EXCEPT ![s] = "Demo Mode"]
  /\ s_pc' = [s_pc EXCEPT ![s] = "idle"]
  /\ s_type' = [s_type EXCEPT ![s] = "none"]
  /\ UNCHANGED <<adminOps, storeVars, adminVars, s_url, s_las, s_loading, s_approval,
                 histVars, placeVars, configured, h_cancelled>>

\* a lookup that returns the status of any submission of the list
getSubmissionForAssignment_Any(s, t) ==
  IF \E u \in AssignmentTypes : s_subs[s][u] # "none"
  THEN s_subs[s][CHOOSE u \in AssignmentTypes : s_subs[s][u] # "none"]
  ELSE "none"

\* submissions.find(s => s.assignment_type === assignmentType): the status
\* of the submission found, "none" when there is none
getSubmissionForAssignment(s, t) == s_subs[s][t]

\* the assignment cards rendered once `loading` is false:
\* STATIC_ASSIGNMENTS.map(...), the status badge of a card being that of its
\* submission and absent when it has none
AssignmentCards(s) ==
  [i \in 1..Len(STATIC_ASSIGNMENTS) |->
     [type |-> STATIC_ASSIGNMENTS[i].type,
      status |-> getSubmissionForAssignment(s, STATIC_ASSIGNMENTS[i].type)]]

(***************************************************************************)
(* Placements: StudentPlacementsScreen and the admin's acceptApplication    *)
(***************************************************************************)
\* user.id of the session on device d
UserOf(d) == "s1"

\* the rows of table tbl of student s, and those for event e
RowsOf(tbl, s) == {r \in tbl : r.student_id = s}
RowsFor(tbl, s, e) == {r \in RowsOf(tbl, s) : r.placement_event_id = e}

\* the unique constraint on (placement_event_id, student_id): the error code
\* with which the store answers an insert for student s and event e
InsertError(tbl, s, e) == IF RowsFor(tbl, s, e) # {} THEN "23505" ELSE "none"

\* insert({placement_event_id, student_id, application_status: 'applied'})
InsertApplication(tbl, s, e) ==
  IF InsertError(tbl, s, e) # "none" THEN tbl
  ELSE tbl \cup {[id |-> Cardinality(tbl) + 1, placement_event_id |-> e,
                  student_id |-> s, application_status |-> "applied",
                  offer_letter_url |-> 0]}

\* a handler that reports every insert error as the generic failure
ApplyOutcome_Generic(err) == IF err = "none" THEN "Success" ELSE "Error"

\* the alert applyForPlacement raises for the error code of its insert
ApplyOutcome(err) ==
  IF err = "23505" THEN "Already Applied"
  ELSE IF err # "none" THEN "Error"
  ELSE "Success"

\* applications.some(app => app.application_status === 'accepted')
hasAcceptedOffer(d) == \E r \in p_apps[d] : r.application_status = "accepted"

\* getApplicationStatus(eventId) on the loaded list
getApplicationStatus(d, e) == {r \in p_apps[d] : r.placement_event_id = e}

\* select * from placement_applications where student_id = user.id is served
loadMyApplications(d) ==
  /\ p_lmaPending[d]
  /\ p_apps' = [p_apps EXCEPT ![d] = RowsOf(apps, UserOf(d))]
  /\ p_lmaPending' = [p_lmaPending EXCEPT ![d] = FALSE]
  /\ p_alert' = [p_alert EXCEPT ![d] = "none"]
  /\ UNCHANGED <<internVars, profileVars, regVars, notifVars, eventVars, uploadPlaceVars, apps, applyOps, p_applying, adminPlaceVars>>

\* Apply Now is pressed on the card of event e: the button is rendered when
\* the loaded list has no application for e and is disabled while applying
\* or when hasAcceptedOffer; setApplying(e) and the insert is issued
applyForPlacement(d, e) ==
  /\ applyOps < MaxApplications
  /\ p_applying[d] = "none"
  /\ getApplicationStatus(d, e) = {}
  /\ ~hasAcceptedOffer(d)
  /\ applyOps' = applyOps + 1
  /\ p_applying' = [p_applying EXCEPT ![d] = e]
  /\ p_alert' = [p_alert EXCEPT ![d] = "none"]
  /\ UNCHANGED <<internVars, profileVars, regVars, notifVars, eventVars, uploadPlaceVars, apps, p_apps, p_lmaPending, adminPlaceVars>>

\* the insert is served: alert by error code; on success
\* loadMyApplications() is started; setApplying(null)
ApplyInsert(d) ==
  /\ p_applying[d] # "none"
  /\ apps' = InsertApplication(apps, UserOf(d), p_applying[d])
  /\ p_alert' = [p_alert EXCEPT ![d] =
                   ApplyOutcome(InsertError(apps, UserOf(d), p_applying[d]))]
  /\ p_lmaPending' = [p_lmaPending EXCEPT ![d] =
                        \/ p_lmaPending[d]
                        \/ InsertError(apps, UserOf(d), p_applying[d]) = "none"]
  /\ p_applying' = [p_applying EXCEPT ![d] = "none"]
  /\ UNCHANGED <<internVars, profileVars, regVars, notifVars, eventVars, uploadPlaceVars, applyOps, p_apps, adminPlaceVars>>

(***************************************************************************)
(* StudentPlacementsScreen: uploadOfferLetter and uploadRequirement        *)
(***************************************************************************)
\* the intern-side variables that an upload to the object store leaves alone
internButUrl == <<subs, approvals, total_credits, faults, budgetVars, adminVars,
                  studentVars, histVars, demoVars>>

\* the intern-side variables that a cancelled picker leaves alone
internButCancelled == <<storeVars, budgetVars, adminVars, studentVars, histVars,
                        configured, s_mock, h_mockUploads>>

\* the placement variables that the upload handlers leave alone
placeButUpload == <<applyOps, p_applying, adminPlaceVars>>

\* a screen that shows the offer-letter section on every application
OfferLetterSectionShown_Always(r) == TRUE

\* the offer-letter section is rendered on the card of an application whose
\* loaded status is 'accepted'
OfferLetterSectionShown(r) == r.application_status = "accepted"

\* .update({offer_letter_url: publicUrl}).eq('id', id)
SetOfferLetterUrl(tbl, id, url) ==
  {IF r.id = id THEN [r EXCEPT !.offer_letter_url = url] ELSE r : r \in tbl}

\* Upload / Update Offer Letter is pressed on the card of application r:
\* setUploading(`offer_${r.id}`) and the document picker is opened
uploadOfferLetter(d, r) ==
  /\ p_upc[d] = "idle"
  /\ r \in p_apps[d]
  /\ OfferLetterSectionShown(r)
  /\ p_upc' = [p_upc EXCEPT ![d] = "ol_pick"]
  /\ p_uploading' = [p_uploading EXCEPT ![d] = "offer"]
  /\ p_target' = [p_target EXCEPT ![d] = r.id]
  /\ p_alert' = [p_alert EXCEPT ![d] = "none"]
  /\ UNCHANGED <<internVars, profileVars, regVars, notifVars, eventVars, placeButUpload, apps, p_apps, p_lmaPending,
                 reqSubs, p_reqEvent, p_url>>

\* result.canceled: setUploading(null); return
OfferPickerCancelled(d) ==
  /\ p_upc[d] = "ol_pick"
  /\ p_upc' = [p_upc EXCEPT ![d] = "idle"]
  /\ p_uploading' = [p_uploading EXCEPT ![d] = CancelledUploading(p_uploading[d])]
  /\ h_cancelled' = h_cancelled \cup {"uploadOfferLetter"}
  /\ p_target' = [p_target EXCEPT ![d] = 0]
  /\ p_alert' = [p_alert EXCEPT ![d] = "none"]
  /\ UNCHANGED <<internButCancelled, profileVars, regVars, notifVars, eventVars, placeButUpload, apps, p_apps, p_lmaPending,
                 reqSubs, p_reqEvent, p_url>>

\* a file was picked; uploadFile('placement-offer-letters', ...) stores it
\* and returns its public URL; the update of the application is issued
OfferPickerChose(d) ==
  /\ p_upc[d] = "ol_pick"
  /\ nextUrl <= MaxUploads
  /\ p_url' = [p_url EXCEPT ![d] = nextUrl]
  /\ nextUrl' = nextUrl + 1
  /\ p_upc' = [p_upc EXCEPT ![d] = "ol_save"]
  /\ p_alert' = [p_alert EXCEPT ![d] = "none"]
  /\ UNCHANGED <<internButUrl, profileVars, regVars, notifVars, eventVars, placeButUpload, apps, p_apps, p_lmaPending,
                 reqSubs, p_uploading, p_target, p_reqEvent>>

\* the update is served; Alert 'Success'; loadMyApplications() is started;
\* setUploading(null)
SaveOfferLetter(d) ==
  /\ p_upc[d] = "ol_save"
  /\ apps' = SetOfferLetterUrl(apps, p_target[d], p_url[d])
  /\ p_alert' = [p_alert EXCEPT ![d] = "Success"]
  /\ p_lmaPending' = [p_lmaPending EXCEPT ![d] = TRUE]
  /\ p_upc' = [p_upc EXCEPT ![d] = "idle"]
  /\ p_uploading' = [p_uploading EXCEPT ![d] = "none"]
  /\ p_target' = [p_target EXCEPT ![d] = 0]
  /\ p_url' = [p_url EXCEPT ![d] = 0]
  /\ UNCHANGED <<internVars, profileVars, regVars, notifVars, eventVars, placeButUpload, p_apps, reqSubs, p_reqEvent>>

\* applications.find(app => app.placement_event_id === eventId)
FindApplication(d, e) == {r \in p_apps[d] : r.placement_event_id = e}

\* an insert that ignores the rows the table holds
UpsertRequirement_Insert(tbl, id, e, url) ==
  tbl \cup {[placement_application_id |-> id, requirement_event |-> e,
            file_url |-> url, submission_status |-> "pending"]}

\* upsert({placement_application_id, requirement_id, file_url,
\* submission_status: 'pending'}, onConflict
\* placement_application_id,requirement_id); every event has one requirement
UpsertRequirement(tbl, id, e, url) ==
  {q \in tbl : ~(q.placement_application_id = id /\ q.requirement_event = e)}
    \cup {[placement_application_id |-> id, requirement_event |-> e,
           file_url |-> url, submission_status |-> "pending"]}

\* Upload / Update is pressed on the requirement of event e in the
\* requirements modal: setUploading(requirementType), the picker is opened
uploadRequirement(d, e) ==
  /\ p_upc[d] = "idle"
  /\ p_upc' = [p_upc EXCEPT ![d] = "rq_pick"]
  /\ p_uploading' = [p_uploading EXCEPT ![d] = "requirement"]
  /\ p_reqEvent' = [p_reqEvent EXCEPT ![d] = e]
  /\ p_alert' = [p_alert EXCEPT ![d] = "none"]
  /\ UNCHANGED <<internVars, profileVars, regVars, notifVars, eventVars, placeButUpload, apps, p_apps, p_lmaPending,
                 reqSubs, p_target, p_url>>

\* result.canceled: setUploading(null); return
RequirementPickerCancelled(d) ==
  /\ p_upc[d] = "rq_pick"
  /\ p_upc' = [p_upc EXCEPT ![d] = "idle"]
  /\ p_uploading' = [p_uploading EXCEPT ![d] = CancelledUploading(p_uploading[d])]
  /\ h_cancelled' = h_cancelled \cup {"uploadRequirement"}
  /\ p_reqEvent' = [p_reqEvent EXCEPT ![d] = "none"]
  /\ p_alert' = [p_alert EXCEPT ![d] = "none"]
  /\ UNCHANGED <<internButCancelled, profileVars, regVars, notifVars, eventVars, placeButUpload, apps, p_apps, p_lmaPending,
                 reqSubs, p_target, p_url>>

\* a file was picked and uploadFile() stored it; only then the handler looks
\* for the application of the event in the loaded list: without one it
\* alerts 'Error' and returns (finally: setUploading(null)), with one it
\* selects the requirement and issues the upsert
RequirementPickerChose(d) ==
  /\ p_upc[d] = "rq_pick"
  /\ nextUrl <= MaxUploads
  /\ nextUrl' = nextUrl + 1
  /\ IF FindApplication(d, p_reqEvent[d]) = {}
     THEN /\ p_alert' = [p_alert EXCEPT ![d] = "Error"]
          /\ p_upc' = [p_upc EXCEPT ![d] = "idle"]
          /\ p_uploading' = [p_uploading EXCEPT ![d] = "none"]
          /\ p_reqEvent' = [p_reqEvent EXCEPT ![d] = "none"]
          /\ UNCHANGED <<p_target, p_url>>
     ELSE /\ p_alert' = [p_alert EXCEPT ![d] = "none"]
          /\ p_upc' = [p_upc EXCEPT ![d] = "rq_save"]
          /\ p_url' = [p_url EXCEPT ![d] = nextUrl]
          /\ p_target' = [p_target EXCEPT ![d] =
                            (CHOOSE r \in FindApplication(d, p_reqEvent[d]) : TRUE).id]
          /\ UNCHANGED <<p_uploading, p_reqEvent>>
  /\ UNCHANGED <<internButUrl, profileVars, regVars, notifVars, eventVars, placeButUpload, apps, p_apps, p_lmaPending, reqSubs>>

\* the upsert is served; Alert 'Success'; setUploading(null)
SaveRequirement(d) ==
  /\ p_upc[d] = "rq_save"
  /\ reqSubs' = UpsertRequirement(reqSubs, p_target[d], p_reqEvent[d], p_url[d])
  /\ p_alert' = [p_alert EXCEPT ![d] = "Success"]
  /\ p_upc' = [p_upc EXCEPT ![d] = "idle"]
  /\ p_uploading' = [p_uploading EXCEPT ![d] = "none"]
  /\ p_target' = [p_target EXCEPT ![d] = 0]
  /\ p_reqEvent' = [p_reqEvent EXCEPT ![d] = "none"]
  /\ p_url' = [p_url EXCEPT ![d] = 0]
  /\ UNCHANGED <<internVars, profileVars, regVars, notifVars, eventVars, placeButUpload, apps, p_apps, p_lmaPending>>

\* the steps of the two upload handlers of the placements screen
OfferUploadStep(d) ==
  \/ \E r \in p_apps[d] : uploadOfferLetter(d, r)
  \/ OfferPickerCancelled(d)
  \/ OfferPickerChose(d)
  \/ SaveOfferLetter(d)

RequirementUploadStep(d) ==
  \/ \E e \in Events : uploadRequirement(d, e)
  \/ RequirementPickerCancelled(d)
  \/ RequirementPickerChose(d)
  \/ SaveRequirement(d)

(***************************************************************************)
(* StudentPlacementsScreen: the eligibility filter of the event list       *)
(***************************************************************************)
\* the classes a student can belong to
Classes == {"SYIT", "SYSD", "TYIT", "TYSD"}

\* student_profiles.class when the profile holds no class
NoClass == "none"

\* the class the screen assumes for a student whose profile holds none
DefaultClass == "TYIT"

\* the values of placement_events.eligible_classes: null, or a list of classes
EligibleLists ==
  {[null |-> TRUE, list |-> {}]} \cup {[null |-> FALSE, list |-> c] : c \in SUBSET Classes}

\* a filter that keeps every active event
filteredEvents_All(tbl, class) == {e \in DOMAIN tbl : tbl[e].is_active}

\* .eq('is_active', true), then the filter on eligible_classes:
\* !event.eligible_classes || length === 0 || includes(studentClass)
filteredEvents(tbl, class) ==
  {e \in DOMAIN tbl :
     /\ tbl[e].is_active
     /\ \/ tbl[e].eligible_classes.null
        \/ Cardinality(tbl[e].eligible_classes.list) = 0
        \/ class \in tbl[e].eligible_classes.list}

\* mount effect on [user]: select class from student_profiles;
\* setStudentClass(data.class), or 'TYIT' when the profile holds no class
loadStudentClass(d) ==
  /\ p_studentClass[d] = ""
  /\ p_studentClass' = [p_studentClass EXCEPT ![d] =
        IF profileClass[UserOf(d)] # NoClass THEN profileClass[UserOf(d)]
        ELSE DefaultClass]
  /\ UNCHANGED <<internVars, profileVars, regVars, notifVars, apps, applyOps, p_applying, p_apps, p_alert, p_lmaPending,
                 adminPlaceVars, uploadPlaceVars, events, profileClass, p_events,
                 p_loading>>

\* started by the effect on [studentClass] once the class is set, and by the
\* realtime handler that the effect subscribes: the select is served;
\* setEvents(filteredEvents); setLoading(false)
loadPlacementEvents(d) ==
  /\ p_studentClass[d] # ""
  /\ p_events' = [p_events EXCEPT ![d] = filteredEvents(events, p_studentClass[d])]
  /\ p_loading' = [p_loading EXCEPT ![d] = FALSE]
  /\ UNCHANGED <<internVars, profileVars, regVars, notifVars, apps, applyOps, p_applying, p_apps, p_alert, p_lmaPending,
                 adminPlaceVars, uploadPlaceVars, events, profileClass, p_studentClass>>

(***************************************************************************)
(* Notifications: the dashboard and the placements screen                  *)
(***************************************************************************)
\* .limit(5) of the dashboard, .limit(10) of the placements screen
DashboardLimit == 5
PlacementsLimit == 10

\* the users that can read a notification
Readers == Students

\* array.includes(x)
Includes(list, x) == \E i \in DOMAIN list : list[i] = x

\* the row that an insert into notifications creates: read_by takes its
\* default, the empty list
NewNotification(id, type) ==
  [id |-> id, type |-> type, is_active |-> TRUE, read_by |-> << >>]

\* .order('created_at', { ascending: false })
RECURSIVE NewestFirst(_)
NewestFirst(list) ==
  IF list = << >> THEN << >>
  ELSE <<list[Len(list)]>> \o NewestFirst(SubSeq(list, 1, Len(list) - 1))

\* .limit(n)
Limit(list, n) == SubSeq(list, 1, IF Len(list) < n THEN Len(list) ELSE n)

\* dashboard: select * .eq('is_active', true) .order(created_at desc) .limit(5)
DashboardQuery(tbl) ==
  Limit(NewestFirst(SelectSeq(tbl, LAMBDA n : n.is_active)), DashboardLimit)

\* placements screen: the same with .or(type.eq.placement,type.eq.general)
\* and .limit(10)
PlacementsQuery(tbl) ==
  Limit(NewestFirst(SelectSeq(tbl,
          LAMBDA n : n.is_active /\ n.type \in {"placement", "general"})),
        PlacementsLimit)

\* a count of every loaded notification
unreadCount_All(list, userId) == Len(list)

\* notificationData.filter(n => !n.read_by.includes(user.id)).length
unreadCount(list, userId) ==
  Cardinality({i \in DOMAIN list : ~Includes(list[i].read_by, userId)})

\* dashboard loadNotifications: the empty list in an unconfigured build,
\* else the query is served; setNotifications; setUnreadNotifications
loadDashboardNotifications ==
  /\ d_notifications' = IF configured THEN DashboardQuery(notifications) ELSE << >>
  /\ d_unread' = IF configured
                 THEN unreadCount(DashboardQuery(notifications), "s1") ELSE 0
  /\ UNCHANGED <<internVars, profileVars, regVars, apps, applyOps, p_applying, p_apps, p_alert, p_lmaPending,
                 adminPlaceVars, uploadPlaceVars, eventVars, notifications, readOps,
                 p_notifications, p_unread>>

\* placements screen loadNotifications, started by the effect on
\* [studentClass] and by the realtime handler on inserts
loadNotifications(d) ==
  /\ p_notifications' = [p_notifications EXCEPT ![d] =
        IF configured THEN PlacementsQuery(notifications) ELSE << >>]
  /\ p_unread' = [p_unread EXCEPT ![d] =
        IF configured THEN unreadCount(PlacementsQuery(notifications), UserOf(d)) ELSE 0]
  /\ UNCHANGED <<internVars, profileVars, regVars, apps, applyOps, p_applying, p_apps, p_alert, p_lmaPending,
                 adminPlaceVars, uploadPlaceVars, eventVars, notifications, readOps,
                 d_notifications, d_unread>>

\* the reader list with the user in it, once
AddReader(list, userId) == IF Includes(list, userId) THEN list ELSE Append(list, userId)

\* markRead(notificationId, userId): the user is added to read_by
markRead(id, userId) ==
  /\ configured
  /\ readOps < MaxReads
  /\ readOps' = readOps + 1
  /\ id \in DOMAIN notifications
  /\ notifications' = [notifications EXCEPT ![id].read_by = AddReader(@, userId)]
  /\ UNCHANGED <<internVars, profileVars, regVars, apps, applyOps, p_applying, p_apps, p_alert, p_lmaPending,
                 adminPlaceVars, uploadPlaceVars, eventVars, d_notifications, d_unread,
                 p_notifications, p_unread>>

\* an admin handler inserts a notification of type 'placement'
InsertNotification ==
  /\ configured
  /\ Len(notifications) < MaxNotifications
  /\ notifications' =
       Append(notifications, NewNotification(Len(notifications) + 1, "placement"))
  /\ UNCHANGED <<internVars, profileVars, regVars, apps, applyOps, p_applying, p_apps, p_alert, p_lmaPending,
                 adminPlaceVars, uploadPlaceVars, eventVars, readOps, d_notifications,
                 d_unread, p_notifications, p_unread>>

(***************************************************************************)
(* Registration: registerStudent                                           *)
(***************************************************************************)
\* the values typed into the registration form
Uids == {"u1", "u2"}
Emails == {"m1", "m2"}
RollNos == {"r1", "r2"}
RegistrationData == [uid : Uids, email : Emails, rollNo : RollNos]

NoData == [uid |-> "none", email |-> "none", rollNo |-> "none"]

\* .or(uid.eq.<uid>,email.eq.<email>,roll_no.eq.<rollNo>)
ExistingStudents(tbl, data) ==
  {x \in tbl : x.uid = data.uid \/ x.email = data.email \/ x.roll_no = data.rollNo}

\* .maybeSingle(): the row when exactly one matches; no data when none
\* matches, and no data (with an error the handler does not read) when
\* several match
MaybeSingleFound(rows) == Cardinality(rows) = 1

\* the unique constraints students_uid_key and students_email_key
InsertStudentError(tbl, data) ==
  \E x \in tbl : x.uid = data.uid \/ x.email = data.email

\* the form is submitted: setLoading(true); the select of an existing
\* student is issued
registerStudent(data) ==
  /\ r_pc = "idle"
  /\ r_pc' = "reg_check"
  /\ r_data' = data
  /\ r_result' = "none"
  /\ UNCHANGED <<internVars, profileVars, apps, applyOps, p_applying, p_apps, p_alert, p_lmaPending,
                 adminPlaceVars, uploadPlaceVars, eventVars, notifVars, students>>

\* the select is served: an existing student ends the handler with its
\* error, else the insert is issued
RegisterCheck ==
  /\ r_pc = "reg_check"
  /\ IF MaybeSingleFound(ExistingStudents(students, r_data))
     THEN /\ r_result' = "Student with this UID, email, or roll number already exists"
          /\ r_pc' = "idle"
     ELSE /\ r_result' = "none"
          /\ r_pc' = "reg_insert"
  /\ UNCHANGED <<internVars, profileVars, apps, applyOps, p_applying, p_apps, p_alert, p_lmaPending,
                 adminPlaceVars, uploadPlaceVars, eventVars, notifVars, students, r_data>>

\* the insert is served: an error ends the handler with 'Registration
\* failed', else the student is stored with class 'SYIT' and signed in
RegisterInsert ==
  /\ r_pc = "reg_insert"
  /\ IF InsertStudentError(students, r_data)
     THEN /\ r_result' = "Registration failed. Please try again."
          /\ UNCHANGED students
     ELSE /\ r_result' = "success"
          /\ students' = students \cup
               {[uid |-> r_data.uid, email |-> r_data.email, roll_no |-> r_data.rollNo]}
  /\ r_pc' = "idle"
  /\ UNCHANGED <<internVars, profileVars, apps, applyOps, p_applying, p_apps, p_alert, p_lmaPending,
                 adminPlaceVars, uploadPlaceVars, eventVars, notifVars, r_data>>

(***************************************************************************)
(* StudentProfile screen and its subscription to student_profiles          *)
(***************************************************************************)
\* what the profile actions leave alone
profileFrame == <<internVars, apps, applyOps, p_applying, p_apps, p_alert, p_lmaPending,
                  adminPlaceVars, uploadPlaceVars, notifVars, regVars, events,
                  p_studentClass, p_events, p_loading>>

\* the change event of an update of a row: eventType and the new row
UpdateEvent(row) == [eventType |-> "UPDATE", new |-> row]

\* the channel has one subscriber per mounted screen; every one receives
\* the changes of the user's row in commit order
Publish(q, ev) == [d \in Sessions |-> Append(q[d], ev)]

\* mount effect, and the end of saveProfile: the select of the user's row is
\* served; setProfile(data)
loadProfile(d) ==
  /\ configured
  /\ f_pc[d] = "idle"
  /\ f_profile' = [f_profile EXCEPT ![d] = profileClass[UserOf(d)]]
  /\ UNCHANGED <<profileFrame, profileClass, f_pc, feed, saveOps>>

\* a class option is pressed: setProfile(prev => ({...prev, class}))
selectClass(d, c) ==
  /\ f_profile[d] # c
  /\ f_profile' = [f_profile EXCEPT ![d] = c]
  /\ UNCHANGED <<profileFrame, profileClass, f_pc, feed, saveOps>>

\* Save is pressed in a configured build: the row of the user exists and
\* is updated with the profile of the session; the store publishes the
\* change; loadProfile is awaited
saveProfile(d) ==
  /\ configured
  /\ f_pc[d] = "idle"
  /\ saveOps < MaxSaves
  /\ saveOps' = saveOps + 1
  /\ profileClass' = [profileClass EXCEPT ![UserOf(d)] = f_profile[d]]
  /\ feed' = Publish(feed, UpdateEvent(f_profile[d]))
  /\ f_pc' = [f_pc EXCEPT ![d] = "save_reload"]
  /\ UNCHANGED <<profileFrame, f_profile>>

\* the loadProfile that saveProfile awaits is served; setSaving(false)
SaveReload(d) ==
  /\ f_pc[d] = "save_reload"
  /\ f_profile' = [f_profile EXCEPT ![d] = profileClass[UserOf(d)]]
  /\ f_pc' = [f_pc EXCEPT ![d] = "idle"]
  /\ UNCHANGED <<profileFrame, profileClass, feed, saveOps>>

\* the handler of the subscription receives the oldest change on its way:
\* if (payload.eventType === 'UPDATE' && payload.new) setProfile(payload.new)
ProfileChanged(d) ==
  /\ feed[d] # << >>
  /\ feed' = [feed EXCEPT ![d] = Tail(feed[d])]
  /\ f_profile' = [f_profile EXCEPT ![d] =
        IF Head(feed[d]).eventType = "UPDATE" THEN Head(feed[d]).new
        ELSE f_profile[d]]
  /\ UNCHANGED <<profileFrame, profileClass, f_pc, saveOps>>

(***************************************************************************)
(* AdminPlacementsScreen                                                   *)
(***************************************************************************)
\* .eq('placement_event_id', eventId) on placement_applications
RowsOfEvent(tbl, e) == {r \in tbl : r.placement_event_id = e}

\* .update({application_status: 'accepted'}).eq('id', id)
SetAccepted(tbl, id) ==
  {IF r.id = id THEN [r EXCEPT !.application_status = "accepted"] ELSE r : r \in tbl}

\* View Applications on the card of event e: setSelectedEvent(e), the select
\* of loadEventApplications is served, the modal is shown
viewApplications(e) ==
  /\ pa_pc = "idle"
  /\ pa_event' = e
  /\ pa_apps' = RowsOfEvent(apps, e)
  /\ pa_alert' = "none"
  /\ UNCHANGED <<internVars, profileVars, regVars, notifVars, eventVars, uploadPlaceVars, apps, applyOps, p_applying, p_apps, p_alert,
                 p_lmaPending, pa_pc, pa_cur, notifs, pa_before>>

\* the application that the catch of loadEventApplications builds: id '1',
\* which is the id of no stored row, of student '1', with status 'applied'
MockApplication(e) ==
  [id |-> 0, placement_event_id |-> e, student_id |-> "1",
   application_status |-> "applied", offer_letter_url |-> 0]

\* View Applications on the card of event e when the store answers the
\* select with an error: the catch logs it and calls
\* setApplications(mockApplications); the modal is shown
viewApplicationsFails(e) ==
  /\ pa_pc = "idle"
  /\ faults < MaxFaults
  /\ faults' = faults + 1
  /\ pa_event' = e
  /\ pa_apps' = {MockApplication(e)}
  /\ pa_alert' = "none"
  /\ UNCHANGED <<subs, approvals, total_credits, nextUrl, budgetVars, adminVars,
                 studentVars, histVars, demoVars>>
  /\ UNCHANGED <<profileVars, regVars, notifVars, eventVars, uploadPlaceVars, apps,
                 applyOps, p_applying, p_apps, p_alert, p_lmaPending, pa_pc, pa_cur,
                 notifs, pa_before>>

\* Mark as Accepted on a listed application whose id the store rejects (an
\* id column of type uuid and the id '1'): the update returns an error, the
\* catch alerts 'Error'
acceptApplicationRejected(r) ==
  /\ pa_pc = "idle"
  /\ r \in pa_apps
  /\ r.application_status # "accepted"
  /\ \A x \in apps : x.id # r.id
  /\ pa_cur' = r.id
  /\ pa_before' = apps
  /\ pa_alert' = "Error"
  /\ UNCHANGED <<internVars, profileVars, regVars, notifVars, eventVars, uploadPlaceVars,
                 apps, applyOps, p_applying, p_apps, p_alert, p_lmaPending, pa_pc,
                 pa_event, pa_apps, notifs>>

\* Mark as Accepted on a listed application whose loaded status is not
\* 'accepted': the update by id is served; Alert 'Success';
\* loadEventApplications(selectedEvent.id) is started
acceptApplication(r) ==
  /\ pa_pc = "idle"
  /\ r \in pa_apps
  /\ r.application_status # "accepted"
  /\ apps' = SetAccepted(apps, r.id)
  /\ pa_cur' = r.id
  /\ pa_before' = apps
  /\ pa_alert' = "Success"
  /\ pa_pc' = IF pa_event # "none" THEN "ac_reload" ELSE "idle"
  /\ UNCHANGED <<internVars, profileVars, regVars, notifVars, eventVars, uploadPlaceVars, applyOps, p_applying, p_apps, p_alert,
                 p_lmaPending, pa_event, pa_apps, notifs>>

\* the select of loadEventApplications is served; the handler then finds
\* the application in the list it was invoked with
AcceptReload ==
  /\ pa_pc = "ac_reload"
  /\ pa_apps' = RowsOfEvent(apps, pa_event)
  /\ pa_alert' = "none"
  /\ pa_pc' = "ac_notify"
  /\ UNCHANGED <<internVars, profileVars, regVars, notifVars, eventVars, uploadPlaceVars, apps, applyOps, p_applying, p_apps, p_alert,
                 p_lmaPending, pa_cur, pa_event, notifs, pa_before>>

\* the notification is built from `status`, an identifier that nothing in
\* the module declares.  Where the runtime has no global of that name
\* (React Native) the evaluation throws; the catch alerts 'Error'
AcceptNotifyThrows ==
  /\ pa_pc = "ac_notify"
  /\ pa_alert' = "Error"
  /\ pa_pc' = "idle"
  /\ UNCHANGED <<internVars, profileVars, regVars, notifVars, eventVars, uploadPlaceVars, apps, applyOps, p_applying, p_apps, p_alert,
                 p_lmaPending, pa_cur, pa_event, pa_apps, notifs, pa_before>>

\* where the runtime resolves `status` (window.status in a browser) the
\* notification is inserted and the handler ends
AcceptNotifyInserts ==
  /\ pa_pc = "ac_notify"
  /\ notifs' = notifs + 1
  /\ notifications' =
       Append(notifications, NewNotification(Len(notifications) + 1, "placement"))
  /\ pa_alert' = "none"
  /\ pa_pc' = "idle"
  /\ UNCHANGED <<internVars, profileVars, regVars, readOps, d_notifications, d_unread, p_notifications,
                 p_unread, eventVars, uploadPlaceVars, apps, applyOps, p_applying, p_apps, p_alert,
                 p_lmaPending, pa_cur, pa_event, pa_apps, pa_before>>

(***************************************************************************)
(* Initial state: every screen has been constructed and its mount effect   *)
(* has started its loads; the record store holds the students only.        *)
(***************************************************************************)
InitInternSessions ==
  /\ s_mock = [s \in Students |-> << >>]
  /\ h_mockUploads = 0
  /\ h_cancelled = {}
  /\ subs = [s \in Students |-> NoSubs]
  /\ approvals = [s \in Students |-> NoRow]
  /\ total_credits = [s \in Students |-> 0]
  /\ nextUrl = 1
  /\ faults = 0
  /\ adminOps = 0
  /\ a_pc = [a \in Admins |-> "ld_subs"]
  /\ a_cur = [a \in Admins |-> CHOOSE s \in Students : TRUE]
  /\ a_subs = [a \in Admins |-> [s \in Students |-> NoView]]
  /\ a_apps = [a \in Admins |-> [s \in Students |-> NoRow]]
  /\ a_todo = [a \in Admins |-> {}]
  /\ a_credits = [a \in Admins |-> 0]
  /\ a_alert = [a \in Admins |-> "none"]
  /\ a_pre = [a \in Admins |-> NoPre]
  /\ s_pc = [s \in Students |-> "idle"]
  /\ s_type = [s \in Students |-> "none"]
  /\ s_url = [s \in Students |-> 0]
  /\ s_las = [s \in Students |-> "las_sub"]
  /\ s_loading = [s \in Students |-> TRUE]
  /\ s_approval = [s \in Students |-> NoApproval]
  /\ s_subs = [s \in Students |-> NoView]
  /\ s_alert = [s \in Students |-> "none"]
  /\ h_awardDone = [s \in Students |-> FALSE]
  /\ h_readmitted = [s \in Students |-> FALSE]
  /\ h_base = [s \in Students |-> 0]

\* a build whose environment names a real Supabase project
InitIntern ==
  /\ configured = TRUE
  /\ InitInternSessions

\* the values of application_status in the PlacementApplication type
ApplicationStatuses == {"pending", "applied", "accepted", "rejected"}

\* a placement_applications table that holds one application of s1 for e1
\* when the screens are opened, in any of the typed statuses
SeededApplications ==
  {{[id |-> 1, placement_event_id |-> "e1", student_id |-> "s1",
     application_status |-> st, offer_letter_url |-> 0]} : st \in ApplicationStatuses}

\* the placement screens after construction
InitPlaceSessions ==
  /\ applyOps = 0
  /\ p_applying = [d \in Sessions |-> "none"]
  /\ p_apps = [d \in Sessions |-> {}]
  /\ p_alert = [d \in Sessions |-> "none"]
  /\ p_lmaPending = [d \in Sessions |-> TRUE]
  /\ pa_pc = "idle"
  /\ pa_cur = 0
  /\ pa_event = "none"
  /\ pa_apps = {}
  /\ pa_alert = "none"
  /\ pa_before = {}
  /\ notifs = 0
  /\ reqSubs = {}
  /\ p_upc = [d \in Sessions |-> "idle"]
  /\ p_uploading = [d \in Sessions |-> "none"]
  /\ p_target = [d \in Sessions |-> 0]
  /\ p_reqEvent = [d \in Sessions |-> "none"]
  /\ p_url = [d \in Sessions |-> 0]
  /\ p_studentClass = [d \in Sessions |-> ""]
  /\ p_events = [d \in Sessions |-> {}]
  /\ p_loading = [d \in Sessions |-> TRUE]
  /\ students = {}
  /\ r_pc = "idle"
  /\ r_data = NoData
  /\ r_result = "none"
  /\ readOps = 0
  /\ d_notifications = << >>
  /\ d_unread = 0
  /\ p_notifications = [d \in Sessions |-> << >>]
  /\ p_unread = [d \in Sessions |-> 0]
  /\ f_profile = [d \in Sessions |-> "SYIT"]
  /\ f_pc = [d \in Sessions |-> "idle"]
  /\ feed = [d \in Sessions |-> << >>]
  /\ saveOps = 0

\* every event as the admin's form creates it by default: active and open to
\* all classes; the student's profile holds a class
InitEvents ==
  /\ events = [e \in Events |->
                 [is_active |-> TRUE, eligible_classes |-> [null |-> FALSE, list |-> {}]]]
  /\ profileClass = [s \in Students |-> DefaultClass]

InitPlace == apps = {} /\ notifications = << >> /\ InitEvents /\ InitPlaceSessions

Init == InitIntern /\ InitPlace

\* the types of the assignment cards pressed in each specification
AwardUploads == {"offer_letter", "completion_letter"}
UnlockUploads == {"offer_letter", "weekly_report"}

\* loadData once it has been started
LoadDataStep(a) ==
  \/ LoadSubmissionsOfClass(a)
  \/ ResetOfferApproval(a)
  \/ ResetCreditsAwarded(a)
  \/ LoadApprovalsOfClass(a)

ApproveStep(a) ==
  \/ \E s \in Students : approveOfferLetter(a, s)
  \/ ApproveUpdateSubmission(a)

AwardStep(a) ==
  \/ \E s \in Students : AwardRefused(a, s)
  \/ \E s \in Students : awardCredits(a, s)
  \/ AwardWriteCredits(a)
  \/ AwardUpsertApproval(a)
  \/ AwardUpdateSubmission(a)

AwardFaultStep(a) ==
  \/ \E s \in Students : AwardReadFails(a, s)
  \/ AwardWriteFails(a)
  \/ AwardUpdateFails(a)

StudentStep(s, types) ==
  \/ StudentReload(s)
  \/ LoadOfferLetterSub(s)
  \/ ResetOwnApproval(s)
  \/ LoadOwnApproval(s)
  \/ \E t \in types : uploadDocument(s, t)
  \/ SaveSubmission(s)

\* uploadDocument with the document picker as a step of its own
UploadSteps(s, types) ==
  \/ \E t \in types : PressUpload(s, t)
  \/ PickerCancelled(s)
  \/ PickerChose(s)
  \/ PickerChoseDemo(s)
  \/ SaveSubmission(s)

\* the loads of the student screen in either build
StudentLoads(s) ==
  \/ StudentReload(s)
  \/ LoadOfferLetterSub(s)
  \/ ResetOwnApproval(s)
  \/ LoadOwnApproval(s)
  \/ LoadDemo(s)

\* The award workflow.  Admin a1 opens the class view any number of times,
\* approves and awards; admin a2 has opened the class view and awards.
Next ==
  \/ AdminMount("a1") \/ ApproveStep("a1")
  \/ \E a \in Admins : LoadDataStep(a) \/ AwardStep(a)
  \/ \E s \in Students : StudentStep(s, AwardUploads)

Spec == Init /\ [][Next]_vars

\* The award workflow of admin a1 when the store answers with errors.
NextFault ==
  \/ AdminMount("a1") \/ LoadDataStep("a1") \/ ApproveStep("a1")
  \/ AwardStep("a1") \/ AwardFaultStep("a1")
  \/ \E s \in Students : StudentStep(s, AwardUploads)

SpecFault == Init /\ [][NextFault]_vars

\* The unlock rule.  Admin a1 opens the class view and approves; admin a2
\* has opened the class view and its loadData is running.
NextUnlock ==
  \/ AdminMount("a1") \/ ApproveStep("a1")
  \/ \E a \in Admins : LoadDataStep(a)
  \/ \E s \in Students : StudentStep(s, UnlockUploads)

SpecUnlock == Init /\ [][NextUnlock]_vars

\* Placements: student s1 applies from two devices and the admin accepts.
NextPlacement ==
  \/ \E d \in Sessions : loadMyApplications(d)
  \/ \E d \in Sessions : \E e \in Events : applyForPlacement(d, e)
  \/ \E d \in Sessions : ApplyInsert(d)
  \/ \E e \in Events : viewApplications(e)
  \/ \E r \in pa_apps : acceptApplication(r)
  \/ AcceptReload
  \/ AcceptNotifyThrows
  \/ AcceptNotifyInserts

SpecPlacement == Init /\ [][NextPlacement]_vars

\* Placements over a store that already holds an application of s1 for e1.
InitReview == InitIntern /\ apps \in SeededApplications /\ notifications = << >>
              /\ InitEvents /\ InitPlaceSessions

NextReview ==
  \/ \E d \in Sessions : loadMyApplications(d)
  \/ \E d \in Sessions : \E e \in Events : applyForPlacement(d, e)
  \/ \E d \in Sessions : ApplyInsert(d)
  \/ \E e \in Events : viewApplications(e)
  \/ \E r \in pa_apps : acceptApplication(r)
  \/ AcceptReload
  \/ AcceptNotifyThrows
  \/ AcceptNotifyInserts

SpecReview == InitReview /\ [][NextReview]_vars

\* the steps of acceptApplication once the admin screen is open
AcceptStep ==
  \/ \E e \in Events : viewApplications(e)
  \/ \E r \in pa_apps : acceptApplication(r)
  \/ AcceptReload
  \/ AcceptNotifyThrows
  \/ AcceptNotifyInserts

\* Offer letters of placements: the session on device d1 loads its
\* applications and uploads offer letters while the admin accepts, over a
\* store that already holds an application of s1 for e1.
NextOffer ==
  \/ loadMyApplications("d1")
  \/ OfferUploadStep("d1")
  \/ AcceptStep

SpecOffer == InitReview /\ [][NextOffer]_vars

\* uploadDocument in a build of either kind.  In the configured build admin
\* a1 opens the class view and approves.
InitUpload == configured \in BOOLEAN /\ InitInternSessions /\ InitPlace

NextUpload ==
  \/ AdminMount("a1") \/ LoadDataStep("a1") \/ ApproveStep("a1")
  \/ \E s \in Students : StudentLoads(s) \/ UploadSteps(s, UnlockUploads)

SpecUpload == InitUpload /\ [][NextUpload]_vars

\* The three upload handlers of a student, on the internship screen and on
\* the placements screen of device d1, over a store that holds one
\* application.
NextPicker ==
  \/ \E s \in Students : StudentLoads(s) \/ UploadSteps(s, {"offer_letter"})
  \/ loadMyApplications("d1")
  \/ OfferUploadStep("d1")
  \/ RequirementUploadStep("d1")

InitPicker == configured \in BOOLEAN /\ InitInternSessions /\ apps \in SeededApplications
              /\ notifications = << >> /\ InitEvents /\ InitPlaceSessions

SpecPicker == InitPicker /\ [][NextPicker]_vars

\* The event list of the placements screen, for every table of events and
\* every class in the student's profile.
InitEventList ==
  /\ InitIntern /\ apps = {} /\ notifications = << >> /\ InitPlaceSessions
  /\ events \in [Events -> [is_active : BOOLEAN, eligible_classes : EligibleLists]]
  /\ profileClass \in [Students -> Classes \cup {NoClass}]

NextEventList == \E d \in Sessions : loadStudentClass(d) \/ loadPlacementEvents(d)

SpecEventList == InitEventList /\ [][NextEventList]_vars

\* the rows a store can hold before the admin handlers insert more: of any
\* type, active or not, read by the student or not
SeededRows(id) ==
  {[id |-> id, type |-> t, is_active |-> a, read_by |-> r] :
     t \in {"placement", "general", "internship"}, a \in BOOLEAN,
     r \in {<< >>, <<"s1">>}}

\* no row, one row or two rows
SeededNotifications ==
  {<< >>} \cup {<<m>> : m \in SeededRows(1)}
          \cup {<<m, n>> : m \in SeededRows(1), n \in SeededRows(2)}

\* Notifications: rows are inserted while the dashboard and the placements
\* screen of device d1 load them, in a build of either kind.
InitNotify ==
  /\ configured \in BOOLEAN /\ InitInternSessions
  /\ apps = {} /\ notifications \in SeededNotifications
  /\ InitEvents /\ InitPlaceSessions

NextNotify ==
  \/ InsertNotification
  \/ loadDashboardNotifications
  \/ loadNotifications("d1")

SpecNotify == InitNotify /\ [][NextNotify]_vars

\* Reading notifications: rows are inserted and marked read by s1 while the
\* placements screen of device d1 loads them.
NextRead ==
  \/ InsertNotification
  \/ \E id \in 1..MaxNotifications : markRead(id, "s1")
  \/ loadNotifications("d1")

SpecRead == Init /\ [][NextRead]_vars

\* The handlers that can end with an error message, in a configured build:
\* admin a1 approves, the student uploads the offer letter, the admin of the
\* placements accepts the application that the store holds; the store
\* answers some requests with an error.
NextError ==
  \/ LoadDataStep("a1") \/ ApproveStep("a1")
  \/ \E s \in Students : ApproveUpsertFails("a1", s)
  \/ \E s \in Students :
       \/ LoadOfferLetterSub(s) \/ ResetOwnApproval(s)
       \/ PressUpload(s, "offer_letter") \/ PickerCancelled(s) \/ PickerChose(s)
       \/ SaveSubmission(s) \/ UploadFileFails(s) \/ SaveSubmissionFails(s)
  \/ viewApplications("e1")
  \/ \E r \in pa_apps : acceptApplication(r)
  \/ AcceptReload \/ AcceptNotifyThrows \/ AcceptNotifyInserts

SpecError == InitReview /\ [][NextError]_vars

\* Registration: students register one after the other on one screen.
NextRegister ==
  \/ \E data \in RegistrationData : registerStudent(data)
  \/ RegisterCheck
  \/ RegisterInsert

SpecRegister == Init /\ [][NextRegister]_vars

\* The profile screens of both devices of s1, subscribed to the user's
\* row: classes are chosen and saved, and the changes arrive.
ProfileChoices == {"SYIT", "TYIT"}

NextProfile ==
  \E d \in Sessions :
    \/ loadProfile(d)
    \/ \E c \in ProfileChoices : selectClass(d, c)
    \/ saveProfile(d)
    \/ SaveReload(d)
    \/ ProfileChanged(d)

SpecProfile == Init /\ [][NextProfile]_vars

\* The applications modal of the admin in a configured build whose store
\* answers some selects with an error.
NextApplications ==
  \/ \E e \in Events : viewApplications(e)
  \/ \E e \in Events : viewApplicationsFails(e)
  \/ \E r \in pa_apps : acceptApplication(r)
  \/ \E r \in pa_apps : acceptApplicationRejected(r)
  \/ AcceptReload \/ AcceptNotifyThrows \/ AcceptNotifyInserts

SpecApplications == InitReview /\ [][NextApplications]_vars

\* Requirement uploads from both devices of s1 over a store that holds an
\* application of s1 for e1 and an application of another student for e2,
\* while s1 applies for e2.
SeededWithOther ==
  {seed \cup {[id |-> 2, placement_event_id |-> "e2", student_id |-> "s2",
               application_status |-> "applied", offer_letter_url |-> 0]} :
     seed \in SeededApplications}

InitRequirement ==
  /\ InitIntern /\ apps \in SeededWithOther /\ notifications = << >>
  /\ InitEvents /\ InitPlaceSessions

NextRequirement ==
  \/ \E d \in Sessions : loadMyApplications(d)
  \/ applyForPlacement("d1", "e2")
  \/ ApplyInsert("d1")
  \/ \E d \in Sessions : RequirementUploadStep(d)

SpecRequirement == InitRequirement /\ [][NextRequirement]_vars

\* uploadDocument of the offer letter in a build of either kind whose
\* stores answer some requests with an error.
NextSettle ==
  \E s \in Students :
    \/ StudentLoads(s)
    \/ UploadSteps(s, {"offer_letter"})
    \/ UploadFileFails(s)
    \/ SaveSubmissionFails(s)

\* the awaits of uploadDocument: the picker returns a file or a
\* cancellation, a request to a store returns data or an error
UploadSettles(s) ==
  \/ PickerCancelled(s) \/ PickerChose(s) \/ PickerChoseDemo(s)
  \/ UploadFileFails(s) \/ SaveSubmission(s) \/ SaveSubmissionFails(s)

\* every await of uploadDocument settles: the picker is closed by the user
\* and the client library resolves every request it sends
SpecSettle ==
  /\ InitUpload /\ [][NextSettle]_vars
  /\ \A s \in Students : WF_vars(UploadSettles(s))

(***************************************************************************)
(* Properties of the internship workflow.                                  *)
(***************************************************************************)
\* C1: an awardCredits invocation for a student that starts after an earlier
\* one for that student has completed, while the stored credits_awarded flag
\* is still true, is refused as already awarded and writes nothing; no such
\* invocation ever passes the guards and reads total_credits.
C1_SecondAwardRefused == \A s \in Students : ~h_readmitted[s]

\* C2: while awardCredits invocations of several admin sessions for the same
\* student overlap, total_credits is at most 2 higher than it was when the
\* first of them started.
C2_ConcurrentAwardOnce ==
  \A s \in Students : total_credits[s] <= h_base[s] + CreditsPerAward

\* C3: offer_letter_approved = true in the approval row of a student implies
\* that the student has an offer_letter submission row.
C3_ApprovedImpliesOfferLetter ==
  \A s \in Students :
    approvals[s].offer_letter_approved => Exists(subs[s]["offer_letter"])

\* C4: when an admin's loadData or a student's loadApprovalStatus completes
\* while the student has no offer_letter submission, the stored
\* offer_letter_approved flag of the student is false afterwards and the
\* loading session's local state has the flag false (so that every other
\* assignment type is locked).
C4_LoadForcesFlagOff ==
  [][ /\ \A a \in Admins : \A s \in Students :
           (a_pc[a] = "ld_apps" /\ a_pc'[a] = "idle"
              /\ ~Exists(subs'[s]["offer_letter"]))
           => (~approvals'[s].offer_letter_approved
                 /\ ~a_apps'[a][s].offer_letter_approved)
      /\ \A s \in Students :
           (s_las[s] # "idle" /\ s_las'[s] = "idle"
              /\ ~Exists(subs'[s]["offer_letter"]))
           => (~approvals'[s].offer_letter_approved
                 /\ ~s_approval'[s].offer_letter_approved) ]_vars

\* C5: no submission row of a type other than offer_letter is created or
\* changed by an upload while the stored offer_letter_approved flag of the
\* student is false.
C5_LockedWhileStoredFlagOff ==
  [][ \A s \in Students : \A t \in AssignmentTypes \ {"offer_letter"} :
        subs'[s][t].file_url # subs[s][t].file_url
          => approvals[s].offer_letter_approved ]_vars

\* no row of a type other than offer_letter exists or is being uploaded
\* before an approval row has been written
C6_NotBeforeApproval ==
  \A s \in Students : \A t \in AssignmentTypes \ {"offer_letter"} :
    (Exists(subs[s][t]) \/ (s_pc[s] = "up_save" /\ s_type[s] = t))
      => approvals[s].exists

\* what the steps of the offer-letter scenario leave behind
C6_Steps ==
  /\ \A s \in Students :
       (s_pc[s] = "idle" /\ s_pc'[s] = "up_save" /\ s_type'[s] # "offer_letter")
         => s_approval[s].offer_letter_approved
  /\ \A s \in Students : \A t \in AssignmentTypes :
       subs'[s][t].file_url # subs[s][t].file_url
         => (subs'[s][t].submission_status = "submitted" /\ s_alert'[s] = "Success")
  /\ \A a \in Admins :
       (a_pc[a] = "idle" /\ a_pc'[a] = "ap_update")
         => approvals'[a_cur'[a]].offer_letter_approved
  /\ \A a \in Admins :
       (a_pc[a] = "ap_update" /\ a_pc'[a] # "ap_update"
          /\ Exists(subs[a_cur[a]]["offer_letter"]))
         => (subs'[a_cur[a]]["offer_letter"].submission_status = "approved"
               /\ a_alert'[a] = "Approved")
  /\ \A s \in Students :
       (s_las[s] = "las_get" /\ s_las'[s] = "idle")
         => s_approval'[s].offer_letter_approved = approvals[s].offer_letter_approved

\* C6: the offer-letter scenario.  An upload is saved with status
\* 'submitted' and a Success alert; the approval upsert leaves
\* offer_letter_approved true and the following update leaves the
\* offer-letter submission 'approved'; the student's reload of the approval
\* status copies the stored flag; an upload of another type can be started
\* only when the session's loaded flag is true, and no row of another type
\* exists or is being uploaded before an approval row has been written.
C6_OfferLetterScenario == []C6_NotBeforeApproval /\ [][C6_Steps]_vars

\* a weekly report saved after the approved offer letter unlocked it
C6_Witness ==
  \E s \in Students :
    /\ subs[s]["weekly_report"].submission_status = "submitted"
    /\ subs[s]["offer_letter"].submission_status = "approved"
    /\ approvals[s].offer_letter_approved
    /\ s_approval[s].offer_letter_approved
    /\ s_alert[s] = "Success"

\* C7: awardCredits is all-or-nothing.  At the step that ends an invocation,
\* either credits_awarded is true, total_credits is 2 above the value read
\* and the completion letter is 'approved', or total_credits is the value
\* read and credits_awarded is what it was when the invocation started.
C7_AwardAllOrNothing ==
  [][ \A a \in Admins :
        (a_pc[a] \in AwardPcs /\ a_pc'[a] \notin AwardPcs)
          => \/ /\ approvals'[a_cur[a]].credits_awarded
                /\ total_credits'[a_cur[a]] = a_credits[a] + CreditsPerAward
                /\ subs'[a_cur[a]]["completion_letter"].submission_status = "approved"
             \/ /\ approvals'[a_cur[a]].credits_awarded = a_pre[a].credits_awarded
                /\ total_credits'[a_cur[a]] = a_credits[a] ]_vars

C9_OneRowPerPair ==
  \A s \in Students : \A e \in Events : Cardinality(RowsFor(apps, s, e)) <= 1

\* the outcome of the step in which the insert of an apply is served
C9_Steps ==
  \A d \in Sessions :
    (p_applying[d] # "none" /\ p_applying'[d] = "none")
      => IF RowsFor(apps, UserOf(d), p_applying[d]) # {}
         THEN p_alert'[d] = "Already Applied" /\ apps' = apps
         ELSE /\ p_alert'[d] = "Success"
              /\ Cardinality(RowsFor(apps', UserOf(d), p_applying[d])) = 1
              /\ Cardinality(apps') = Cardinality(apps) + 1

\* C9: the store never holds two placement_applications rows for the same
\* (student, event); an applyForPlacement whose insert is served while a row
\* for its (student, event) exists raises the Already Applied alert, not the
\* generic Error, and leaves the table as it was; one served while no such
\* row exists adds exactly one row and raises Success.
C9_DuplicateApplyRefused == []C9_OneRowPerPair /\ [][C9_Steps]_vars

\* the second device was told Already Applied for the event that the first
\* device applied to, and the pair has one row
C9_Witness ==
  /\ p_alert["d1"] = "Success"
  /\ p_alert["d2"] = "Already Applied"
  /\ \E e \in Events : Cardinality(RowsFor(apps, "s1", e)) = 1
  /\ Cardinality(apps) = 1

\* C10: while a student has an accepted application in the store, no new
\* application row of that student is inserted.
C10_NoApplyAfterAccepted ==
  [][ \A s \in Students :
        (\E r \in RowsOf(apps, s) : r.application_status = "accepted")
          => Cardinality(RowsOf(apps', s)) = Cardinality(RowsOf(apps, s)) ]_vars

\* C11: a student holds at most one placement_applications row with status
\* accepted, over all events.
C11_OneAcceptedPerStudent ==
  \A s \in Students :
    Cardinality({r \in RowsOf(apps, s) : r.application_status = "accepted"}) <= 1

\* C12: an acceptApplication on an application ends with the application
\* 'accepted' in the store and without an Error alert.
C12_AcceptEndsWithoutError ==
  [][ (pa_pc # "idle" /\ pa_pc' = "idle")
        => /\ pa_alert' # "Error"
           /\ \A r \in apps' : r.id = pa_cur => r.application_status = "accepted" ]_vars

C14_OfferLetterOnlyWhenAccepted ==
  [][ \A r \in apps : \A q \in apps' :
        (q.id = r.id /\ q.offer_letter_url # r.offer_letter_url)
          => /\ r.application_status = "accepted"
             /\ q = [r EXCEPT !.offer_letter_url = q.offer_letter_url]
             /\ \E d \in Sessions :
                  p_upc[d] = "ol_save" /\ q.offer_letter_url = p_url[d]
             /\ apps' \ {q} = apps \ {r} ]_vars

\* an accepted application whose offer letter was uploaded a second time
C14_Witness ==
  \E r \in apps :
    /\ r.application_status = "accepted"
    /\ r.offer_letter_url = 2
    /\ nextUrl = 3

\* C15: a completed uploadDocument leaves one submission of the uploaded
\* (student, type), holding the URL of this upload, the latest one, with
\* status 'submitted', and changes no other submission: in a configured
\* build through the upsert on the record store, in an unconfigured build
\* through the local list, which never holds two entries of one type.
C15_MockListHasNoDuplicates ==
  \A s \in Students :
    /\ \A i, j \in DOMAIN s_mock[s] :
         s_mock[s][i].assignment_type = s_mock[s][j].assignment_type => i = j
    /\ \A i \in DOMAIN s_mock[s] :
         s_mock[s][i] = MockSubmission(s_mock[s][i].assignment_type)

C15_Steps ==
  \A s \in Students :
    /\ (s_pc[s] = "up_save" /\ s_pc'[s] = "idle")
         => /\ subs'[s][s_type[s]] =
                 [file_url |-> s_url[s], submission_status |-> "submitted"]
            /\ \A t \in AssignmentTypes : subs'[s][t].file_url <= s_url[s]
            /\ \A u \in Students : \A t \in AssignmentTypes :
                 (u # s \/ t # s_type[s]) => subs'[u][t] = subs[u][t]
    /\ (s_pc[s] = "up_pick" /\ s_pc'[s] = "idle" /\ s_alert'[s] = "Demo Mode")
         => /\ Cardinality({i \in DOMAIN s_mock'[s] :
                   s_mock'[s][i] = MockSubmission(s_type[s])}) = 1
            /\ {s_mock'[s][i] : i \in DOMAIN s_mock'[s]} \ {MockSubmission(s_type[s])}
                 = {s_mock[s][i] : i \in DOMAIN s_mock[s]} \ {MockSubmission(s_type[s])}
            /\ subs' = subs

C15_OneSubmissionPerKey == []C15_MockListHasNoDuplicates /\ [][C15_Steps]_vars

\* the second demo upload of a type has replaced the first
C15_Witness ==
  /\ ~configured
  /\ h_mockUploads = 2
  /\ \E s \in Students : s_mock[s] = <<MockSubmission("offer_letter")>>
\* C16: the submission_status of an existing submission changes only in a
\* step of an admin handler (approveOfferLetter, awardCredits); no step of a
\* student session changes the status of a submission that is 'approved' or
\* 'rejected'.
C16_StatusChangedByAdminOnly ==
  [][ \A s \in Students : \A t \in AssignmentTypes :
        (Exists(subs[s][t])
           /\ subs'[s][t].submission_status # subs[s][t].submission_status)
          => /\ \E a \in Admins : a_pc[a] \in {"ap_update", "aw_update"} /\ a_pc'[a] # a_pc[a]
             /\ s_pc' = s_pc ]_vars
\* C17: the internship screen lists the six catalog assignment types, once
\* each; for a student with no uploads every card is not submitted, and
\* after the first successful upload the card of the uploaded type shows
\* 'submitted' and the other five remain not submitted.
C17_SixCards ==
  \A s \in Students :
    /\ Len(AssignmentCards(s)) = 6
    /\ \A i, j \in 1..6 : AssignmentCards(s)[i].type = AssignmentCards(s)[j].type => i = j
    /\ {AssignmentCards(s)[i].type : i \in 1..6} =
         {"offer_letter", "completion_letter", "weekly_report", "student_outcome",
          "student_feedback", "company_outcome"}
    /\ (~s_loading[s] /\ subs[s] = NoSubs /\ s_mock[s] = << >>)
         => \A i \in 1..6 : AssignmentCards(s)[i].status = "none"

C17_FirstUpload ==
  \A s \in Students :
    ( /\ subs[s] = NoSubs /\ s_mock[s] = << >>
      /\ s_pc[s] \in {"up_save", "up_pick"} /\ s_pc'[s] = "idle"
      /\ s_alert'[s] \in {"Success", "Demo Mode"} )
      => /\ ~s_loading'[s]
         /\ \A i \in 1..6 :
              AssignmentCards(s)'[i].status =
                IF AssignmentCards(s)'[i].type = s_type[s] THEN "submitted" ELSE "none"

C17_ListForStudent == []C17_SixCards /\ [][C17_FirstUpload]_vars

\* the first upload, of the offer letter, has just been saved
C17_Witness ==
  \E s \in Students :
    /\ configured /\ ~s_loading[s] /\ s_alert[s] = "Success" /\ nextUrl = 2
    /\ \A i \in 1..6 :
         AssignmentCards(s)[i].status =
           IF AssignmentCards(s)[i].type = "offer_letter" THEN "submitted" ELSE "none"
\* C18: when the document picker of uploadDocument, uploadOfferLetter or
\* uploadRequirement is cancelled, nothing is written to the object store or
\* to the record store, the lists of both student screens stay as they
\* were, and the uploading marker of the handler is back to null.
C18_StoresAndListsUnchanged ==
  /\ UNCHANGED <<subs, approvals, total_credits, nextUrl, apps, reqSubs, notifs>>
  /\ UNCHANGED <<s_subs, s_mock, s_approval, p_apps>>

C18_Steps ==
  /\ \A s \in Students :
       (s_pc[s] = "up_pick" /\ s_pc'[s] = "idle" /\ s_alert'[s] # "Demo Mode")
         => C18_StoresAndListsUnchanged /\ s_type'[s] = "none"
  /\ \A d \in Sessions :
       (p_upc[d] = "ol_pick" /\ p_upc'[d] = "idle")
         => C18_StoresAndListsUnchanged /\ p_uploading'[d] = "none"
  /\ \A d \in Sessions :
       (p_upc[d] = "rq_pick" /\ p_upc'[d] = "idle" /\ p_alert'[d] # "Error")
         => C18_StoresAndListsUnchanged /\ p_uploading'[d] = "none"

C18_CancelWritesNothing == [][C18_Steps]_vars

\* the picker of each of the three handlers has been cancelled, and nothing
\* has been uploaded
C18_Witness ==
  /\ h_cancelled = {"uploadDocument", "uploadOfferLetter", "uploadRequirement"}
  /\ nextUrl = 1
  /\ \A s \in Students : s_pc[s] = "idle" /\ s_type[s] = "none"
  /\ \A d \in Sessions : p_upc[d] = "idle" /\ p_uploading[d] = "none"
\* C19: approveOfferLetter for a student who has no offer-letter submission
\* leaves the approval record and every submission as they were, and ends
\* with an error reported to the admin.
C19_ApproveWithoutSubmissionFails ==
  [][ \A a \in Admins :
        /\ (a_pc[a] = "idle" /\ a_pc'[a] = "ap_update"
               /\ ~Exists(subs[a_cur'[a]]["offer_letter"]))
             => (approvals' = approvals /\ subs' = subs)
        /\ (a_pc[a] = "ap_update" /\ a_pc'[a] # "ap_update"
               /\ ~Exists(subs[a_cur[a]]["offer_letter"]))
             => (approvals' = approvals /\ subs' = subs /\ a_alert'[a] = "Error") ]_vars
\* C20: once the event list of a student of class c is loaded, it contains
\* an event exactly when the event is active and its eligible-class list is
\* null, empty, or contains c; for every class c and every eligible-class
\* list over SYIT, SYSD, TYIT, TYSD.
C20_EligibilityFilter ==
  \A d \in Sessions :
    (~p_loading[d] /\ profileClass[UserOf(d)] \in {"SYIT", "SYSD", "TYIT", "TYSD"})
      => \A e \in Events :
           e \in p_events[d]
             <=> /\ events[e].is_active
                 /\ \/ events[e].eligible_classes.null
                    \/ events[e].eligible_classes.list = {}
                    \/ profileClass[UserOf(d)] \in events[e].eligible_classes.list

\* a loaded list that shows the event open to the student's class and hides
\* the active event that is not
C20_Witness ==
  /\ profileClass["s1"] = "SYIT"
  /\ events["e1"] = [is_active |-> TRUE,
                      eligible_classes |-> [null |-> FALSE, list |-> {"TYIT"}]]
  /\ events["e2"] = [is_active |-> TRUE,
                      eligible_classes |-> [null |-> FALSE, list |-> {"SYIT", "SYSD"}]]
  /\ ~p_loading["d1"]
  /\ p_events["d1"] = {"e2"}
\* C21: the unread count shown on the dashboard and on the placements
\* screen is the number of loaded notifications whose read_by does not hold
\* the user's id; it is never larger than the number of notifications
\* loaded, which is at most 5 on the dashboard and 10 on the placements
\* screen.
C21_UnreadCount ==
  /\ d_unread = Cardinality({i \in DOMAIN d_notifications :
                   "s1" \notin {d_notifications[i].read_by[j] :
                                  j \in DOMAIN d_notifications[i].read_by}})
  /\ d_unread <= Len(d_notifications)
  /\ Len(d_notifications) <= 5
  /\ \A d \in Sessions :
       /\ p_unread[d] = Cardinality({i \in DOMAIN p_notifications[d] :
                            UserOf(d) \notin {p_notifications[d][i].read_by[j] :
                                                j \in DOMAIN p_notifications[d][i].read_by}})
       /\ p_unread[d] <= Len(p_notifications[d])
       /\ Len(p_notifications[d]) <= 10

\* both screens have loaded as many notifications as their limit allows
\* out of a longer table, and one of the ten was read by the student
C21_Witness ==
  /\ Len(notifications) = 11
  /\ Len(d_notifications) = 5 /\ d_unread = 5
  /\ Len(p_notifications["d1"]) = 10 /\ p_unread["d1"] = 9
\* C22: markRead(notificationId, userId) leaves the user in the reader list
\* of that notification exactly once, whether it is the first call or a
\* later one, and touches no other notification; a load after it does not
\* count that notification as unread for the user.
C22_ReadersOnce ==
  \A i \in DOMAIN notifications :
    \A j, k \in DOMAIN notifications[i].read_by :
      notifications[i].read_by[j] = notifications[i].read_by[k] => j = k

C22_Steps ==
  /\ readOps' # readOps
       => /\ Len(notifications') = Len(notifications)
          /\ \E id \in DOMAIN notifications :
               /\ Cardinality({j \in DOMAIN notifications'[id].read_by :
                                 notifications'[id].read_by[j] = "s1"}) = 1
               /\ \A u \in DOMAIN notifications[id].read_by :
                    notifications'[id].read_by[u] = notifications[id].read_by[u]
               /\ \A o \in DOMAIN notifications :
                    o # id => notifications'[o] = notifications[o]
  /\ \A d \in Sessions :
       (configured /\ <<p_notifications[d], p_unread[d]>>' # <<p_notifications[d], p_unread[d]>>)
         => /\ \A i \in DOMAIN p_notifications'[d] :
                 p_notifications'[d][i] = notifications[p_notifications'[d][i].id]
            /\ p_unread'[d] =
                 Cardinality({i \in DOMAIN p_notifications'[d] :
                    \A j \in DOMAIN notifications[p_notifications'[d][i].id].read_by :
                      notifications[p_notifications'[d][i].id].read_by[j] # UserOf(d)})

C22_MarkReadIdempotent == []C22_ReadersOnce /\ [][C22_Steps]_vars

\* markRead has been called twice on one notification, and the list loaded
\* afterwards counts every notification but that one
C22_Witness ==
  /\ readOps = 2
  /\ Cardinality({i \in DOMAIN notifications : notifications[i].read_by = <<"s1">>}) = 1
  /\ Len(p_notifications["d1"]) = 3
  /\ p_unread["d1"] = 2
  /\ \A i \in 1..3 : p_notifications["d1"][i] = notifications[p_notifications["d1"][i].id]
\* C23: a registerStudent whose uid and email are used by no existing
\* student ends in success, whatever its roll number; only a duplicate uid
\* or a duplicate email makes it fail.
C23_RollNumberNotUnique ==
  [][ (r_pc # "idle" /\ r_pc' = "idle")
        => (r_result' = "success"
              <=> ~\E x \in students : x.uid = r_data.uid \/ x.email = r_data.email) ]_vars
\* C24: the two approval flags are independent: no step of awardCredits
\* changes a student's stored offer_letter_approved, and no step of
\* approveOfferLetter changes the stored credits_awarded.
C24_FlagsIndependent ==
  [][ \A a \in Admins :
        /\ (a_pc[a] \in AwardPcs /\ a_pc'[a] # a_pc[a])
             => \A s \in Students :
                  approvals'[s].offer_letter_approved = approvals[s].offer_letter_approved
        /\ ((a_pc[a] = "ap_update" \/ a_pc'[a] = "ap_update") /\ a_pc'[a] # a_pc[a])
             => \A s \in Students :
                  approvals'[s].credits_awarded = approvals[s].credits_awarded ]_vars
\* C25: in every interleaving of the loads with an offer-letter upload and
\* another admin's approval, the stored offer_letter_approved goes from
\* true to false only for a student who has no offer-letter submission at
\* the moment of that write.
C25_ResetOnlyWithoutOfferLetter ==
  [][ \A s \in Students :
        (approvals[s].offer_letter_approved /\ ~approvals'[s].offer_letter_approved)
          => ~Exists(subs[s]["offer_letter"]) ]_vars
\* C26: when approveOfferLetter, acceptApplication or uploadDocument ends
\* by showing an error message, the record store holds what it held when
\* the operation began: no step of the operation has written to it.
C26_RecordStoreUntouched == UNCHANGED <<subs, approvals, total_credits, apps, reqSubs>>

C26_Steps ==
  /\ \A a \in Admins :
       (adminOps' # adminOps /\ a_alert'[a] = "Error" /\ a_pc'[a] = "idle")
         => (a_pc[a] = "idle" /\ C26_RecordStoreUntouched)
  /\ \A s \in Students :
       /\ (s_pc[s] \in {"up_pick", "up_save"} /\ s_pc'[s] = "idle" /\ s_alert'[s] = "Error")
            => C26_RecordStoreUntouched
       /\ (s_pc'[s] \in {"up_pick", "up_save"} /\ s_pc'[s] # s_pc[s])
            => C26_RecordStoreUntouched
  /\ (pa_pc # "idle" /\ pa_pc' = "idle" /\ pa_alert' = "Error")
       => \A r \in pa_before : r \in apps'

C26_ErrorMeansNoPartialState == [][C26_Steps]_vars

\* C27: on every change event a subscribed screen reacts only by
\* re-fetching: a step in which the profile screen handles a change of
\* student_profiles leaves in `profile` what the store holds, not what the
\* event carried.
C27_HandlersOnlyRefetch ==
  [][\A d \in Sessions :
       (feed[d] # << >> /\ feed'[d] = Tail(feed[d]))
         => f_profile'[d] = profileClass'[UserOf(d)]]_vars

\* C28: mock data replaces backend data only when the backend is
\* unconfigured: in a configured build every application listed in the
\* admin's modal is a row of placement_applications, never a fabricated one.
C28_NoFabricatedApplications ==
  configured => \A r \in pa_apps : \E x \in apps : x.id = r.id

\* the rows of student_requirement_submissions with a key
C29_RowsOfKey(tbl, id, e) ==
  {q \in tbl : q.placement_application_id = id /\ q.requirement_event = e}

\* at most one row per (application, requirement), and every row references
\* an application for the event of its requirement
C29_OneRowPerKey ==
  /\ \A q \in reqSubs :
       Cardinality(C29_RowsOfKey(reqSubs, q.placement_application_id,
                                 q.requirement_event)) = 1
  /\ \A q \in reqSubs : \E r \in apps :
       r.id = q.placement_application_id /\ r.placement_event_id = q.requirement_event

\* a new or rewritten row belongs to an application of the uploading
\* student; a picked file for an event without an application in the
\* session creates no row; an upload for a key that has a row overwrites it
C29_Steps ==
  /\ \A q \in reqSubs' \ reqSubs : \E d \in Sessions : \E r \in apps :
       /\ p_upc[d] = "rq_save"
       /\ r.id = q.placement_application_id
       /\ r.student_id = UserOf(d)
       /\ r.placement_event_id = q.requirement_event
  /\ \A d \in Sessions :
       (p_upc[d] = "rq_pick" /\ p_upc'[d] # "rq_pick"
          /\ FindApplication(d, p_reqEvent[d]) = {})
         => (reqSubs' = reqSubs /\ p_upc'[d] = "idle")
  /\ \A d \in Sessions :
       (p_upc[d] = "rq_save" /\ p_upc'[d] = "idle"
          /\ C29_RowsOfKey(reqSubs, p_target[d], p_reqEvent[d]) # {})
         => /\ Cardinality(reqSubs') = Cardinality(reqSubs)
            /\ \E q \in reqSubs' : q.file_url = p_url[d]

\* C29: there is at most one student_requirement_submissions row per
\* (application, requirement), every row references an application of the
\* uploading student for the event of the requirement, uploadRequirement
\* for an event without an application in the session creates no row, and a
\* repeated upload overwrites the row.
C29_RequirementSubmissions == []C29_OneRowPerKey /\ [][C29_Steps]_vars

\* a second file is about to be saved for a key that already has a row
C29_Witness ==
  \E d \in Sessions :
    /\ p_upc[d] = "rq_save"
    /\ \E q \in C29_RowsOfKey(reqSubs, p_target[d], p_reqEvent[d]) :
         q.file_url # p_url[d]

\* a failed upload to the object store writes no submission, alerts 'Error'
\* and clears the marker; the marker is set only while the handler runs
C30_Steps ==
  \A s \in Students :
    /\ (s_pc[s] = "up_pick" /\ s_pc'[s] = "idle" /\ faults' # faults)
         => (subs' = subs /\ s_alert'[s] = "Error" /\ s_type'[s] = "none")
    /\ s_pc'[s] = "idle" => s_type'[s] = "none"

\* C30: if the object-store upload fails during uploadDocument, no
\* submission is created or modified, an error is shown, and the uploading
\* marker eventually returns to null; it returns to null on every path.
C30_MarkerReturnsToNull ==
  /\ [][C30_Steps]_vars
  /\ \A s \in Students : (s_type[s] # "none") ~> (s_type[s] = "none")

\* the object store has rejected the only file that was picked
C30_Witness ==
  \E s \in Students :
    /\ faults > 0 /\ nextUrl = 1
    /\ s_pc[s] = "idle" /\ s_alert[s] = "Error" /\ s_type[s] = "none"

====
